---- MODULE Spec2Model ----
(***************************************************************************)
(* A model of novabot's execution-governance layer ("nervous system"):     *)
(* the durable outbox, the persisted JSON stores, the channel-isolated     *)
(* memory layer, the working memory's pending actions and the policy gate. *)
(* Each subsystem has its own specification over the shared variables; the *)
(* variables of the other subsystems stay at their initial values.         *)
(***************************************************************************)
EXTENDS Integers, Sequences, FiniteSets, TLC

VARIABLES
  \* ---- durable outbox (outbox.json and the caller's position) ----
  entries,      \* outbox.json: key -> [status, recorded_at]
  now,          \* wall clock, in days
  pc,           \* position of the side-effect call in flight
  cur,          \* the tool call in flight
  result,       \* outcome of the tool execution in flight
  seenStatus,   \* status of the key's entry when the call in flight was checked
  execCount,    \* history: key -> number of executions of the tool
  skipped,      \* history: key -> a call was short-circuited as a duplicate
  sentSince,    \* history: key -> marked sent and not cleared since
  hist,         \* history: key -> the outbox methods applied to it, in order
  \* ---- the persisted JSON files (outbox, dead-letter queue, reminders) ----
  file,         \* store -> what is on disk: [kind, data]
  saving,       \* the store whose file is open for writing, or "none"
  buf,          \* the content being written by the save in flight
  before,       \* history: store -> content loaded by the last save begun
  after,        \* history: store -> content the last save begun was writing
  \* ---- memory layer (DigitalCloneBrain) ----
  contexts,     \* context name -> records of that isolated store
  memory,       \* records of the legacy unified store
  collective,   \* identity / preferences / contacts -> records
  nTurns,       \* number of conversation turns stored so far
  lastQuery,    \* the last retrieval: [op, resolved, stores, results]
  \* ---- policy gate ----
  counts,           \* _tool_call_counts: tool -> calls counted in this run
  require_approval, \* strict mode, fixed at construction
  lastCheck,        \* the last check() call and what it returned
  runKind,          \* what started the current run: a turn or a task run
  runCalls,         \* history: tool -> checks counted since the run started
  allowedCount,     \* history: tool -> checks allowed since the last reset
  blocked,          \* history: tools refused as over the cap in this run
  blockedPrev,      \* history: tools refused as over the cap in the previous run
  \* ---- working memory's pending actions and the conversation turn ----
  pending,      \* working_memory.json "pending_actions": list of proposals
  wmNow,        \* time.time(), in seconds
  smState,      \* the agent state machine's state
  turnPc,       \* position of the conversation turn in flight
  turnMsg,      \* kind of the user message of the turn
  turnExplicit, \* the message itself carries explicit confirmation
  hadPending,   \* tools with a live pending action when the turn began
  approved,     \* the pending action popped for an affirmative message
  steps,        \* tool steps taken in the turn
  poppedAt,     \* history: when the approved action was popped
  lastCall,     \* history: the last tool request and what became of it
  \* ---- dead letter queue ----
  failure_counts, \* _failure_counts: key -> consecutive failures (0: no entry)
  dlq_items,      \* dead_letter_queue.json: list of items
  dlqSeq,         \* number of items dead-lettered by this process
  failsSince,     \* history: key -> failures modulo max_retries since success / clear
  dlqHist,        \* history: every item dead-lettered since the last clear
  lastDlq,        \* history: the last queue operation and what it returned
  \* ---- working memory's pending actions, method by method ----
  nAdded,       \* number of add_pending_action calls made
  returned,     \* history: labels of the actions pops have returned
  lastWm,       \* history: the last pending-action method and what it returned
  \* ---- task runner ----
  taskStatus,   \* task queue: task -> pending / running / done / failed
  subtasks,     \* the subtasks of the task taken last: [reversible, status]
  runnerPc,     \* where the runner's coroutine is
  curTask,      \* the task being processed
  stepIdx,      \* idx + 1: the subtask of the loop, from 1
  attempt,      \* loop variable of _execute_subtask
  phase,        \* "main": the subtask itself, "alt": the alternative plan
  lastTask,     \* history: the task taken last
  runs,         \* history: subtask -> calls of agent.run, for that task
  altPlans,     \* history: subtask -> alternative plans requested
  mainFails,    \* history: subtask -> failed attempts of the subtask itself
  cancelledAt,  \* history: first subtask not yet started when the task was cancelled
  gateCancel,   \* history: subtasks in whose warning window the task was cancelled
  templates,    \* template library: [task, score stored, score the critic returned]
  \* ---- reminders ----
  reminders,    \* reminders.json: list of [id, remind_at, status]
  rmNow,        \* datetime.now(USER_TZ)
  toDeliver,    \* scheduler: ids fired and not yet delivered
  delivered,    \* history: id -> deliveries made
  firedOk,      \* history: ids that were pending and due when they became fired
  cancelledOk,  \* history: ids whose cancellation succeeded
  everFinal,    \* history: ids seen fired or cancelled
  \* ---- attention engine ----
  attLog,       \* attention_log.json: [key, at] in insertion order
  attNow,       \* datetime.now(), in hours
  attPc,        \* the loop of start(): about to scan, or asleep
  attSent,      \* history: <<key, hour>> of every observation delivered
  prevScan,     \* history: the observations and the hour of the scan before
  lastScan,     \* history: the last scan and what it delivered
  \* ---- inbound channel adapters ----
  chAllowed,    \* allowed_numbers of the WhatsApp and the voice adapter
  msgs,         \* inbound messages in arrival order: [channel, sender, user, pc, behind]
  turnQueue,    \* conversation manager: <<channel, user>> -> calls waiting for their turn
  turnActive,   \* conversation manager: <<channel, user>> -> the turn being processed, 0 if none
  started,      \* history: the messages whose turn began, in that order
  \* ---- the brain's JSONL backup ----
  brStores,     \* identity / preferences / contacts: records [id, text]
  backupFile,   \* data/brain_backup.jsonl: entries [type, text, doc_id]
  brUuid,       \* uuid4 values drawn so far
  boots,        \* number of restarts
  lastBoot,     \* history: the last restart, what it found and whether it replayed
  \* ---- context thalamus ----
  histories,    \* _conversation_histories: session -> list of message roles
  lastHistory,  \* history: the list the last manage_history returned
  \* ---- tool registry ----
  tools,        \* ToolRegistry.tools: the names registered
  envelopes,    \* history: what each execute_tool call gave back, in order
  \* ---- agent state machine ----
  sm_state,     \* AgentStateMachine._state
  cancel_event, \* AgentStateMachine._cancel_event is set
  task_description, \* AgentStateMachine._current_task_description
  cancelAsked,  \* history: request_cancel since the last reset: "none", "ignored", "latched"
  lastSm,       \* history: the last method called and what it returned
  \* ---- the runner's chunked Telegram report ----
  tgPc,         \* _send_chunked_telegram: "idle" or "loop"
  tgHeader,     \* len(header)
  tgContent,    \* len(content)
  tgRemaining,  \* the offset in content where remaining starts
  tgPart,       \* part
  tgChunks,     \* history: the messages handed to telegram.notify for this report
  \* ---- memory consolidator ----
  mcStores,     \* per-channel and legacy stores: records counted by kind and age
  mcCollective, \* identity / preferences / contacts: number of records
  mcPrev,       \* history: the step before was a consolidation cycle
  lastCycle,    \* history: what the last consolidation cycle deleted
  mcSteps,      \* history: turns stored and turns aged so far
  \* ---- daily digest ----
  dgNow,            \* local clock, in minutes since midnight of day 0
  digest_minute,    \* the configured minute of the digest hour
  last_digest_date, \* _last_digest_date
  dgSent,           \* history: per date, digests delivered and whether a delivery raised
  dgLast,           \* history: what the last poll did and when
  \* ---- runs sharing the policy gate ----
  gateRuns,         \* history: per run, whether it is active and what the gate answered it
  \* ---- turns sharing the state machine ----
  smTurns,          \* history: per turn, whether it runs and the cancel it has yet to see
  \* ---- working memory instances of one process ----
  default_unfinished, \* the list object _DEFAULT["unfinished"]
  wiFile,             \* per path: the file of the instance
  wiInst              \* per path: the instance, the list its state refers to, what it saw when loaded

obVars == <<entries, now, pc, cur, result, seenStatus, execCount, skipped, sentSince, hist>>
svVars == <<file, saving, buf, before, after>>
memVars == <<contexts, memory, collective, nTurns, lastQuery>>
pgVars == <<counts, require_approval, lastCheck, runKind, runCalls, allowedCount, blocked, blockedPrev>>

wmVars == <<pending, wmNow, smState, turnPc, turnMsg, turnExplicit, hadPending, approved, steps, poppedAt, lastCall>>

dlqVars == <<failure_counts, dlq_items, dlqSeq, failsSince, dlqHist, lastDlq>>

\* The subsystems of the first part of the module, and those after them.
coreVars == <<obVars, svVars, memVars, pgVars, wmVars>>
wpVars == <<nAdded, returned, lastWm>>
trVars == <<taskStatus, subtasks, runnerPc, curTask, stepIdx, attempt, phase, lastTask, runs, altPlans,
           mainFails, cancelledAt, gateCancel, templates>>
rmVars == <<reminders, rmNow, toDeliver, delivered, firedOk, cancelledOk, everFinal>>
atVars == <<attLog, attNow, attPc, attSent, prevScan, lastScan>>

chVars == <<chAllowed, msgs, turnQueue, turnActive, started>>

\* The subsystems of the third part of the module.
brVars == <<brStores, backupFile, brUuid, boots, lastBoot>>
thVars == <<histories, lastHistory>>
rgVars == <<tools, envelopes, sm_state, cancel_event, task_description, cancelAsked, lastSm>>
tgVars == <<tgPc, tgHeader, tgContent, tgRemaining, tgPart, tgChunks>>
mcVars == <<mcStores, mcCollective, mcPrev, lastCycle, mcSteps>>
dgVars == <<dgNow, digest_minute, last_digest_date, dgSent, dgLast>>
grVars == <<gateRuns>>
stVars == <<smTurns>>
wiVars == <<default_unfinished, wiFile, wiInst>>
thirdVars == <<atVars, chVars, brVars, thVars, rgVars, tgVars, mcVars, dgVars, grVars, stVars, wiVars>>
laterVars == <<dlqVars, wpVars, trVars, rmVars, thirdVars>>

vars == <<coreVars, laterVars>>

(***************************************************************************)
(* Bounds of the model.                                                    *)
(***************************************************************************)
MaxNow == 8
MaxExec == 2
MaxHist == 3
MaxTurns == 2
MaxWmNow == 2400
TickSeconds == 600
MaxSteps == 2
MaxDead == 4
MaxRmNow == 3
MaxAttNow == 31
MaxMsgs == 3
MaxBackup == 3
MaxBoots == 2
MaxCalls == 3
MaxOld == 3
MaxAdded == 2
MaxDays == 2

(***************************************************************************)
(* Durable outbox: src/core/nervous_system/outbox.py                       *)
(***************************************************************************)

\* Default retention of cleanup_old, in days.
OutboxDays == 7

\* Tool calls the agent may issue: (tool, operation, args).
ToolCalls ==
  { [tool |-> "email",  op |-> "send_email", args |-> "to_bob"],
    [tool |-> "email",  op |-> "send_email", args |-> "to_amy"],
    [tool |-> "x_tool", op |-> "post_tweet", args |-> "hello"] }

SIDE_EFFECT_TOOLS == {"email", "x_post"}

is_side_effect_tool(tool_name) == tool_name \in SIDE_EFFECT_TOOLS

\* sha256 of the canonical JSON of {tool, op, args} with sorted keys: equal
\* exactly for equal (tool, op, args), whatever the order the args were given in.
make_idempotency_key(c) == <<c.tool, c.op, c.args>>

Keys == { make_idempotency_key(c) : c \in ToolCalls }

Statuses == {"pending", "sent", "failed"}

\* A key that is not in the JSON object.
Absent == [status |-> "absent", recorded_at |-> 0]

record_pending(e, key, t) ==
  [e EXCEPT ![key] = [status |-> "pending", recorded_at |-> t]]

mark_sent(e, key) ==
  IF e[key].status # "absent" THEN [e EXCEPT ![key].status = "sent"] ELSE e

mark_failed(e, key) ==
  IF e[key].status # "absent" THEN [e EXCEPT ![key].status = "failed"] ELSE e

is_duplicate_pending(e, key) == e[key].status = "pending"

is_duplicate(e, key) == e[key].status = "sent"

cleanup_old(e, t) ==
  [k \in Keys |->
     IF e[k].status # "absent" /\ e[k].recorded_at > t - OutboxDays
     THEN e[k] ELSE Absent]

\* The other subsystems do not move while the outbox is exercised.
ObOthers == UNCHANGED <<svVars, memVars, pgVars, wmVars, laterVars>>

ObInit ==
  /\ entries = [k \in Keys |-> Absent]
  /\ now = 0
  /\ pc = "idle"
  /\ cur = CHOOSE c \in ToolCalls : TRUE
  /\ result = "none"
  /\ seenStatus = "absent"
  /\ execCount = [k \in Keys |-> 0]
  /\ skipped = [k \in Keys |-> FALSE]
  /\ sentSince = [k \in Keys |-> FALSE]
  /\ hist = [k \in Keys |-> <<>>]

\* The clock advances by a day.
Tick ==
  /\ now < MaxNow
  /\ now' = now + 1
  /\ UNCHANGED <<entries, pc, cur, result, seenStatus, execCount, skipped, sentSince, hist>>
  /\ ObOthers

\* The daily garbage collection.
CleanupOld ==
  /\ entries' = cleanup_old(entries, now)
  /\ sentSince' = [k \in Keys |-> sentSince[k] /\ entries'[k].status # "absent"]
  /\ hist' = [k \in Keys |-> IF entries'[k] = entries[k] THEN hist[k] ELSE <<>>]
  /\ UNCHANGED <<now, pc, cur, result, seenStatus, execCount, skipped>>
  /\ ObOthers

----
(***************************************************************************)
(* The caller's protocol around a tool call (spec 4.6, 4.9 step 4): one    *)
(* call in flight at a time; the process can crash between the steps.      *)
(***************************************************************************)

\* Dedup check; a duplicate is short-circuited, anything else is recorded pending.
CallStart(c) ==
  LET key == make_idempotency_key(c) IN
  /\ pc = "idle"
  /\ execCount[key] < MaxExec
  /\ cur' = c
  /\ IF is_side_effect_tool(c.tool)
     THEN /\ seenStatus' = entries[key].status
          /\ IF is_duplicate(entries, key)
             THEN /\ skipped' = [skipped EXCEPT ![key] = TRUE]
                  /\ UNCHANGED <<entries, pc>>
             ELSE /\ entries' = record_pending(entries, key, now)
                  /\ pc' = "recorded"
                  /\ UNCHANGED skipped
     ELSE /\ pc' = "recorded"
          /\ seenStatus' = "absent"
          /\ UNCHANGED <<entries, skipped>>
  /\ UNCHANGED <<now, result, execCount, sentSince, hist>>
  /\ ObOthers

\* The tool runs and returns success or an error envelope.
Execute(ok) ==
  /\ pc = "recorded"
  /\ pc' = "executed"
  /\ result' = IF ok THEN "success" ELSE "error"
  /\ execCount' = [execCount EXCEPT ![make_idempotency_key(cur)] = @ + 1]
  /\ UNCHANGED <<entries, now, cur, seenStatus, skipped, sentSince, hist>>
  /\ ObOthers

\* The outcome is recorded: mark_sent on success, mark_failed on error.
Mark ==
  LET key == make_idempotency_key(cur) IN
  /\ pc = "executed"
  /\ pc' = "idle"
  /\ result' = "none"
  /\ IF is_side_effect_tool(cur.tool)
     THEN IF result = "success"
          THEN /\ entries' = mark_sent(entries, key)
               /\ sentSince' = [sentSince EXCEPT ![key] = entries'[key].status = "sent"]
          ELSE /\ entries' = mark_failed(entries, key)
               /\ UNCHANGED sentSince
     ELSE UNCHANGED <<entries, sentSince>>
  /\ UNCHANGED <<now, cur, seenStatus, execCount, skipped, hist>>
  /\ ObOthers

\* The process dies with a call in flight and is restarted; outbox.json stays.
Crash ==
  /\ pc # "idle"
  /\ pc' = "idle"
  /\ result' = "none"
  /\ UNCHANGED <<entries, now, cur, seenStatus, execCount, skipped, sentSince, hist>>
  /\ ObOthers

OutboxNext ==
  \/ \E c \in ToolCalls : CallStart(c)
  \/ \E ok \in BOOLEAN : Execute(ok)
  \/ Mark
  \/ Crash
  \/ CleanupOld
  \/ Tick

\* C1: once a key handled by the outbox protocol has been marked sent, no
\* later step executes the tool for that key, until the entry is cleared.
C1_SentNeverExecutesAgain ==
  [][\A c \in ToolCalls :
       (is_side_effect_tool(c.tool) /\ sentSince[make_idempotency_key(c)])
          => execCount'[make_idempotency_key(c)] = execCount[make_idempotency_key(c)]]_vars

\* A repeated call on a sent key was short-circuited, and the tool ran once.
C1_Witness ==
  \E k \in Keys : sentSince[k] /\ skipped[k] /\ execCount[k] = 1

\* C4: garbage collection never removes a pending entry; what it removes is
\* non-pending and at least 7 days old, and every other entry is unchanged.
C4_CleanupNeverRemovesPending ==
  [][\A k \in Keys :
       /\ entries[k].status = "pending" => entries'[k].status # "absent"
       /\ (entries[k].status # "absent" /\ entries'[k].status = "absent")
             => (entries[k].status # "pending" /\ entries[k].recorded_at <= now - OutboxDays)
       /\ (\E j \in Keys : entries[j].status # "absent" /\ entries'[j].status = "absent")
             => entries'[k] \in {entries[k], Absent}]_vars

\* C5: a call whose key has an unconfirmed pending entry (left by a crash
\* between record_pending and mark_sent) does not execute the tool again.
C5_PendingNotReexecuted ==
  ~(pc = "executed" /\ is_side_effect_tool(cur.tool) /\ seenStatus = "pending")

----
(***************************************************************************)
(* The outbox as a class: its methods called in any order on the keys of   *)
(* the side-effect tools.                                                  *)
(***************************************************************************)

ApiKeys == { make_idempotency_key(c) : c \in { d \in ToolCalls : is_side_effect_tool(d.tool) } }

\* The last MaxHist methods applied to a key.
Push(h, op) == IF Len(h) < MaxHist THEN Append(h, op) ELSE Append(Tail(h), op)

ApiFrame ==
  /\ UNCHANGED <<now, pc, cur, result, seenStatus, execCount, skipped, sentSince>>
  /\ ObOthers

ApiRecordPending(key) ==
  /\ entries' = record_pending(entries, key, now)
  /\ hist' = [hist EXCEPT ![key] = Push(@, "record_pending")]
  /\ ApiFrame

ApiMarkSent(key) ==
  /\ entries' = mark_sent(entries, key)
  /\ hist' = [hist EXCEPT ![key] = Push(@, "mark_sent")]
  /\ ApiFrame

ApiMarkFailed(key) ==
  /\ entries' = mark_failed(entries, key)
  /\ hist' = [hist EXCEPT ![key] = Push(@, "mark_failed")]
  /\ ApiFrame

OutboxApiNext ==
  \/ \E k \in ApiKeys : ApiRecordPending(k)
  \/ \E k \in ApiKeys : ApiMarkSent(k)
  \/ \E k \in ApiKeys : ApiMarkFailed(k)

\* The last three methods applied to a key.
LastThree(h) == IF Len(h) < 3 THEN <<>> ELSE SubSeq(h, Len(h) - 2, Len(h))

\* C2: after record_pending(k) ; mark_sent(k) ; record_pending(k) the key is
\* still reported as a duplicate.
C2_DuplicateAfterSecondRecord ==
  \A k \in ApiKeys :
     LastThree(hist[k]) = <<"record_pending", "mark_sent", "record_pending">>
        => is_duplicate(entries, k)

\* C3: once an entry is sent or failed, no later mark_sent or mark_failed
\* changes its status.
C3_TerminalStatusIsFinal ==
  [][\A k \in ApiKeys :
       (entries[k].status \in {"sent", "failed"} /\ entries'[k].status \in {"sent", "failed"})
          => entries'[k].status = entries[k].status]_vars

----
(***************************************************************************)
(* The persisted JSON files: DurableOutbox._load/_save,                    *)
(* DeadLetterQueue._load/_save, ReminderTool._load_reminders/              *)
(* _save_reminders. The three have the same shape: _save opens the file    *)
(* itself for writing (which truncates it) and dumps the JSON into it.     *)
(***************************************************************************)

Stores == {"outbox", "dead_letter_queue", "reminders"}

\* What a store holds: sent outbox keys, dead-lettered items, reminders.
Items == {"i1", "i2"}

NoFile == [kind |-> "absent", data |-> {}]

\* _load: a missing file and a file json.load rejects (empty or cut short)
\* both give the empty container.
load(f) == IF f.kind = "complete" THEN f.data ELSE {}

\* open(path, 'w'): the file exists and is empty from here on.
open_w(f) == [kind |-> "partial", data |-> {}]

\* json.dump followed by the close of the with-block.
dump_close(f, content) == [kind |-> "complete", data |-> content]

SvInit ==
  /\ file = [s \in Stores |-> NoFile]
  /\ saving = "none"
  /\ buf = {}
  /\ before = [s \in Stores |-> {}]
  /\ after = [s \in Stores |-> {}]

SvOthers == UNCHANGED <<obVars, memVars, pgVars, wmVars, laterVars>>

\* A mutator loads the file, adds an item and starts _save: the file is opened.
BeginSave(s, i) ==
  /\ saving = "none"
  /\ buf' = load(file[s]) \cup {i}
  /\ before' = [before EXCEPT ![s] = load(file[s])]
  /\ after' = [after EXCEPT ![s] = load(file[s]) \cup {i}]
  /\ file' = [file EXCEPT ![s] = open_w(@)]
  /\ saving' = s
  /\ SvOthers

\* _save runs to its end.
FinishSave(s) ==
  /\ saving = s
  /\ file' = [file EXCEPT ![s] = dump_close(@, buf)]
  /\ saving' = "none"
  /\ UNCHANGED <<buf, before, after>>
  /\ SvOthers

outbox_save(i) == BeginSave("outbox", i)
outbox_save_done == FinishSave("outbox")
dlq_save(i) == BeginSave("dead_letter_queue", i)
dlq_save_done == FinishSave("dead_letter_queue")
save_reminders(i) == BeginSave("reminders", i)
save_reminders_done == FinishSave("reminders")

\* The process dies while a file is open for writing, and is restarted.
CrashInSave ==
  /\ saving # "none"
  /\ saving' = "none"
  /\ UNCHANGED <<file, buf, before, after>>
  /\ SvOthers

SaveNext ==
  \/ \E i \in Items : outbox_save(i)
  \/ outbox_save_done
  \/ \E i \in Items : dlq_save(i)
  \/ dlq_save_done
  \/ \E i \in Items : save_reminders(i)
  \/ save_reminders_done
  \/ CrashInSave

\* C6: whenever no save is in flight (also after a crash during one), a load
\* of each file gives the complete content from before the last save or the
\* complete content that save was writing, so nothing recorded is lost.
C6_SaveIsAtomic ==
  saving = "none" =>
     \A s \in Stores : /\ load(file[s]) \in {before[s], after[s]}
                       /\ before[s] \subseteq load(file[s])

----
(***************************************************************************)
(* Memory layer: src/core/brain/digital_clone_brain.py                     *)
(***************************************************************************)

KnownChannels ==
  {"telegram", "email", "whatsapp", "x", "linkedin", "slack", "discord", "calendar", "web"}

CHANNEL_TO_CONTEXT == [c \in KnownChannels |-> c]

\* No channel / no talent given (None or the empty string).
NoName == ""

\* The value of a metadata dict that has no "channel" key.
MissingKey == "<missing>"

\* Channels the callers pass: two known ones, one outside the fixed set, none.
ChannelInputs == {"telegram", "email", "fax", NoName}

\* Every name a context store can get.
ContextNames == {"telegram", "email", "fax", "unknown", "general"}

Collective == {"identity", "preferences", "contacts"}

\* The stores a retrieval can read, by path.
CollectiveStores == { <<"collective", s>> : s \in Collective }

Facts == {"f1"}

\* dict.get(k, k)
channel_to_context_get(name) ==
  IF name \in DOMAIN CHANNEL_TO_CONTEXT THEN CHANNEL_TO_CONTEXT[name] ELSE name

resolve_talent(channel, talent) ==
  IF talent # NoName THEN channel_to_context_get(talent)
  ELSE IF channel # NoName THEN channel_to_context_get(channel)
  ELSE NoName

\* A mistake that keeps one store for every talent.
get_context_shared(talent) == "general"

\* The name of the isolated store _get_context opens (creating it on first use).
get_context(talent) == channel_to_context_get(talent)

\* search(query, n_results): the n nearest records, all of them when fewer.
TopN(S, n) ==
  { T \in SUBSET S : Cardinality(T) = IF Cardinality(S) < n THEN Cardinality(S) ELSE n }

\* search(..., filter_metadata = {"type": "conversation"})
Conversations(S) == { r \in S : r.type = "conversation" }

NoQuery == [op |-> "none", resolved |-> NoName, stores |-> {}, results |-> {}]

MemInit ==
  /\ contexts = [c \in ContextNames |-> {}]
  /\ memory = {}
  /\ collective = [s \in Collective |-> {}]
  /\ nTurns = 0
  /\ lastQuery = NoQuery

MemOthers == UNCHANGED <<obVars, svVars, pgVars, wmVars, laterVars>>

\* store_conversation_turn(..., metadata); m is metadata's "channel" entry.
store_conversation_turn(m) ==
  LET channel == IF m = MissingKey THEN "unknown" ELSE m
      talent  == resolve_talent(channel, NoName)
      rec     == [id |-> nTurns + 1, type |-> "conversation", channel |-> channel,
                  talent |-> IF talent # NoName THEN talent ELSE "unknown"]
  IN
  /\ nTurns < MaxTurns
  /\ nTurns' = nTurns + 1
  /\ IF talent # NoName
     THEN /\ contexts' = [contexts EXCEPT ![get_context(talent)] = @ \cup {rec}]
          /\ UNCHANGED memory
     ELSE /\ memory' = memory \cup {rec}
          /\ UNCHANGED contexts
  /\ UNCHANGED <<collective, lastQuery>>
  /\ MemOthers

\* store_identity / remember_preference / remember_person
remember(s, f) ==
  /\ collective' = [collective EXCEPT ![s] = @ \cup {[id |-> f, type |-> s, channel |-> NoName, talent |-> NoName]}]
  /\ UNCHANGED <<contexts, memory, nTurns, lastQuery>>
  /\ MemOthers

get_relevant_context(max_results, talent, channel) ==
  LET resolved == resolve_talent(channel, talent) IN
  \E ids \in TopN(collective["identity"], 3),
     prefs \in TopN(collective["preferences"], 3),
     cts \in TopN(collective["contacts"], 2) :
    /\ IF resolved # NoName
       THEN \E mems \in TopN(contexts[get_context(resolved)], max_results) :
              lastQuery' = [op |-> "get_relevant_context", resolved |-> resolved,
                            stores |-> CollectiveStores \cup {<<"contexts", get_context(resolved)>>},
                            results |-> ids \cup prefs \cup cts \cup mems]
       ELSE \E mems \in TopN(memory, max_results) :
              lastQuery' = [op |-> "get_relevant_context", resolved |-> resolved,
                            stores |-> CollectiveStores \cup {<<"legacy", "memory">>},
                            results |-> ids \cup prefs \cup cts \cup mems]
    /\ UNCHANGED <<contexts, memory, collective, nTurns>>
    /\ MemOthers

get_recent_conversation(limit, talent, channel) ==
  LET resolved == resolve_talent(channel, talent) IN
  /\ IF resolved # NoName
     THEN \E res \in TopN(Conversations(contexts[get_context(resolved)]), limit) :
            lastQuery' = [op |-> "get_recent_conversation", resolved |-> resolved,
                          stores |-> {<<"contexts", get_context(resolved)>>},
                          results |-> res]
     ELSE \E res \in TopN(Conversations(memory), limit) :
            lastQuery' = [op |-> "get_recent_conversation", resolved |-> resolved,
                          stores |-> {<<"legacy", "memory">>},
                          results |-> res]
  /\ UNCHANGED <<contexts, memory, collective, nTurns>>
  /\ MemOthers

MemoryNext ==
  \/ \E m \in ChannelInputs \cup {MissingKey} : store_conversation_turn(m)
  \/ \E s \in Collective, f \in Facts : remember(s, f)
  \/ \E n \in {1, 5}, t \in {NoName, "email"}, c \in ChannelInputs : get_relevant_context(n, t, c)
  \/ \E n \in {1, 5}, t \in {NoName, "email"}, c \in ChannelInputs : get_recent_conversation(n, t, c)

\* The store a retrieval resolved to a channel reads, the legacy store when
\* it resolved to none.
StoreOf(resolved) ==
  IF resolved # NoName THEN <<"contexts", resolved>> ELSE <<"legacy", "memory">>

\* C7: a retrieval returns no conversation turn that was stored with a
\* channel other than the one the retrieval resolved to, and it reads only
\* the three collective stores and the store of its resolved channel.
C7_ChannelIsolation ==
  /\ \A r \in lastQuery.results :
        r.type = "conversation" => resolve_talent(r.channel, NoName) = lastQuery.resolved
  /\ lastQuery.stores \subseteq CollectiveStores \cup {StoreOf(lastQuery.resolved)}

\* A retrieval returned a turn of its channel while another channel's store
\* held turns too.
C7_Witness ==
  /\ \E r \in lastQuery.results : r.type = "conversation"
  /\ \E c \in ContextNames : c # lastQuery.resolved /\ contexts[c] # {}

----
(***************************************************************************)
(* Policy gate: src/core/nervous_system/policy_gate.py                     *)
(***************************************************************************)

TOOL_RISK_MAP ==
  [ bash |-> [_default |-> "write"],
    file_operations |-> [_default |-> "write"],
    web_search |-> [_default |-> "read"],
    web_fetch |-> [_default |-> "read"],
    browser |-> [_default |-> "read"],
    email |-> [read_emails |-> "read", search_emails |-> "read",
               send_email |-> "irreversible", reply_email |-> "irreversible",
               _default |-> "write"],
    calendar |-> [list_events |-> "read", search_events |-> "read",
                  create_event |-> "write", delete_event |-> "irreversible",
                  _default |-> "write"],
    x_tool |-> [post_tweet |-> "irreversible", post_to_community |-> "irreversible",
                delete_tweet |-> "irreversible", _default |-> "irreversible"],
    reminder |-> [set_reminder |-> "write", list_reminders |-> "read",
                  cancel_reminder |-> "write", _default |-> "write"],
    nova_task |-> [_default |-> "write"],
    contacts |-> [_default |-> "read"],
    linkedin |-> [_default |-> "write"],
    send_whatsapp_message |-> [_default |-> "irreversible"],
    make_phone_call |-> [_default |-> "irreversible"],
    clock |-> [_default |-> "read"] ]

max_calls_per_run == 20

\* operation = None
NoOp == ""

\* The tools whose counters the model follows.
GateTools == {"email", "web_search", "x_tool"}

\* The (tool, operation) pairs checked by the gate on its own.
GateCalls == { <<"email", "send_email">>, <<"email", "read_emails">>, <<"web_search", NoOp>> }

get_risk_level(tool_name, operation) ==
  LET tool_risks == IF tool_name \in DOMAIN TOOL_RISK_MAP
                    THEN TOOL_RISK_MAP[tool_name] ELSE [none \in {} |-> "write"]
  IN IF operation # NoOp /\ operation \in DOMAIN tool_risks
     THEN tool_risks[operation]
     ELSE IF "_default" \in DOMAIN tool_risks THEN tool_risks["_default"] ELSE "write"

\* The cap compared with > : one call too many passes.
check_off_by_one(c, strict, tool_name, operation) ==
  LET counted == [c EXCEPT ![tool_name] = @ + 1]
  IN IF c[tool_name] > max_calls_per_run
     THEN [allowed |-> FALSE, reason |-> "exceeded", counts |-> c]
     ELSE IF get_risk_level(tool_name, operation) = "irreversible" /\ strict
          THEN [allowed |-> FALSE, reason |-> "requires approval", counts |-> counted]
          ELSE [allowed |-> TRUE, reason |-> "allowed", counts |-> counted]

\* check(tool_name, operation, ...) on counters c: what it returns and the
\* counters it leaves.
check(c, strict, tool_name, operation) ==
  LET risk == get_risk_level(tool_name, operation)
      call_count == c[tool_name]
      counted == [c EXCEPT ![tool_name] = call_count + 1]
  IN IF call_count >= max_calls_per_run
     THEN [allowed |-> FALSE, reason |-> "exceeded", counts |-> c]
     ELSE IF risk = "irreversible" /\ strict
          THEN [allowed |-> FALSE, reason |-> "requires approval", counts |-> counted]
          ELSE [allowed |-> TRUE, reason |-> "allowed", counts |-> counted]

\* A reset that clears nothing.
reset_run_counts_noop(c) == c

\* _tool_call_counts.clear(): every tool counts from 0 again.
reset_run_counts(c) == [t \in DOMAIN c |-> 0]

NoCheck == [tool |-> "none", op |-> NoOp, allowed |-> TRUE, reason |-> "none",
            countBefore |-> 0, allowedBefore |-> 0, othersKept |-> TRUE,
            token |-> FALSE]

\* PolicyGate(require_approval_for_irreversible=strict)
PgInit(strict) ==
  /\ counts = [t \in GateTools |-> 0]
  /\ require_approval = strict
  /\ lastCheck = NoCheck
  /\ runKind = "none"
  /\ runCalls = [t \in GateTools |-> 0]
  /\ allowedCount = [t \in GateTools |-> 0]
  /\ blocked = {}
  /\ blockedPrev = {}

\* The subsystems that never use the gate.
PgApart == UNCHANGED <<obVars, svVars, memVars, laterVars>>

PgOthers == PgApart /\ UNCHANGED wmVars

\* One call of check, and the bookkeeping of what it did.  params reach only
\* the log line of check; token tells whether they carried the approval of
\* the user for this turn.
CheckWith(tool_name, operation, token) ==
  LET r == check(counts, require_approval, tool_name, operation) IN
  /\ counts' = r.counts
  /\ lastCheck' = [tool |-> tool_name, op |-> operation, allowed |-> r.allowed,
                   reason |-> r.reason, countBefore |-> counts[tool_name],
                   allowedBefore |-> allowedCount[tool_name],
                   othersKept |-> \A u \in GateTools \ {tool_name} : r.counts[u] = counts[u],
                   token |-> token]
  /\ runCalls' = IF r.reason # "exceeded"
                 THEN [runCalls EXCEPT ![tool_name] = @ + 1] ELSE runCalls
  /\ allowedCount' = IF r.allowed
                     THEN [allowedCount EXCEPT ![tool_name] = @ + 1] ELSE allowedCount
  /\ blocked' = IF r.reason = "exceeded" THEN blocked \cup {tool_name} ELSE blocked
  /\ UNCHANGED <<require_approval, runKind, blockedPrev>>

CheckCore(tool_name, operation) == CheckWith(tool_name, operation, FALSE)

\* A run begins: the counters are reset.
StartRunCore(kind) ==
  /\ counts' = reset_run_counts(counts)
  /\ runKind' = kind
  /\ runCalls' = [t \in GateTools |-> 0]
  /\ allowedCount' = [t \in GateTools |-> 0]
  /\ blockedPrev' = blocked
  /\ blocked' = {}
  /\ lastCheck' = NoCheck
  /\ UNCHANGED require_approval

GateCheck(tool_name, operation, token) == CheckWith(tool_name, operation, token) /\ PgOthers

\* The start of a conversation turn.
start_turn == StartRunCore("turn") /\ PgOthers

\* The start of an agent run made for a task.
start_task_run == StartRunCore("task") /\ PgOthers

GateNext ==
  \/ \E call \in GateCalls, token \in BOOLEAN : GateCheck(call[1], call[2], token)
  \/ start_turn
  \/ start_task_run

\* C9: between two resets check() allows a tool at most 20 times, refuses
\* every later check of that tool as over the limit, never lets a counter
\* pass 20, and leaves the counters of the other tools alone.
C9_CapPerTool ==
  /\ \A t \in GateTools : counts[t] <= 20 /\ allowedCount[t] <= 20
  /\ lastCheck.othersKept
  /\ (lastCheck.tool # "none" /\ (lastCheck.allowedBefore >= 20 \/ lastCheck.countBefore >= 20))
        => (~lastCheck.allowed /\ lastCheck.reason = "exceeded")

\* A tool was allowed 20 times and its next check was refused, while the
\* other tool still had allowance.
C9_Witness ==
  /\ lastCheck.reason = "exceeded"
  /\ allowedCount[lastCheck.tool] = 20
  /\ \E u \in GateTools : u # lastCheck.tool /\ counts[u] > 0 /\ counts[u] < 20

\* C35: a check that returns not-allowed, for the cap or for missing
\* approval, leaves the counter of every tool as it was.
C35_DeniedCheckKeepsCounters ==
  (lastCheck.tool # "none" /\ ~lastCheck.allowed)
     => (counts[lastCheck.tool] = lastCheck.countBefore /\ lastCheck.othersKept)

C11_StrictModeHonoursApproval ==
  (lastCheck.tool # "none" /\ lastCheck.reason # "exceeded") =>
    IF get_risk_level(lastCheck.tool, lastCheck.op) = "irreversible" /\ require_approval
    THEN lastCheck.allowed <=> lastCheck.token
    ELSE lastCheck.allowed

----
(***************************************************************************)
(* Working memory's pending actions: src/core/brain/working_memory.py, and *)
(* the conversation turn that uses them with the gate (spec 4.9).          *)
(***************************************************************************)

PENDING_ACTION_TTL == 1800

NoAction == [tool_name |-> "none", op |-> NoOp, created_at |-> 0]

\* Drop element i of a sequence.
RemoveAt(q, i) == [j \in 1..(Len(q) - 1) |-> IF j < i THEN q[j] ELSE q[j + 1]]

\* The last n elements of a sequence, all of it when shorter.
LastN(q, n) == IF Len(q) <= n THEN q ELSE SubSeq(q, Len(q) - n + 1, Len(q))

\* A second proposal for a tool is kept beside the first.
add_pending_action_keep(p, tool_name, op, t) ==
  LastN(Append(p, [tool_name |-> tool_name, op |-> op, created_at |-> t]), 3)

add_pending_action(p, tool_name, op, t) ==
  LET others == SelectSeq(p, LAMBDA a : a.tool_name # tool_name)
  IN LastN(Append(others, [tool_name |-> tool_name, op |-> op, created_at |-> t]), 3)

\* Expired proposals are handed out like live ones.
get_pending_actions_no_ttl(p, t) == p

\* The live proposals; the stored list becomes this list.
get_pending_actions(p, t) ==
  SelectSeq(p, LAMBDA a : t - a.created_at < PENDING_ACTION_TTL)

\* The oldest live proposal is taken when no tool is named.
pop_pending_action_oldest(p, tool_name, t) ==
  LET live == get_pending_actions(p, t)
      hits == { i \in 1..Len(live) : live[i].tool_name = tool_name }
      idx  == IF Len(live) = 0 THEN 0
              ELSE IF tool_name # NoName
                   THEN IF hits = {} THEN 0 ELSE CHOOSE i \in hits : \A j \in hits : i <= j
                   ELSE 1
  IN IF idx = 0 THEN [action |-> NoAction, pending |-> live]
     ELSE [action |-> live[idx], pending |-> RemoveAt(live, idx)]

\* pop_pending_action(tool_name): the action returned and the list left.
pop_pending_action(p, tool_name, t) ==
  LET live == get_pending_actions(p, t)
      hits == { i \in 1..Len(live) : live[i].tool_name = tool_name }
      idx  == IF Len(live) = 0 THEN 0
              ELSE IF tool_name # NoName
                   THEN IF hits = {} THEN 0 ELSE CHOOSE i \in hits : \A j \in hits : i <= j
                   ELSE Len(live)
  IN IF idx = 0 THEN [action |-> NoAction, pending |-> live]
     ELSE [action |-> live[idx], pending |-> RemoveAt(live, idx)]

clear_pending_actions(p) == <<>>

\* What the LLM may ask for in a turn.
TurnCalls == { <<"email", "send_email">>, <<"x_tool", "post_tweet">>, <<"web_search", NoOp>> }

MsgKinds == {"affirm", "deny", "request"}

NoCall == [tool |-> "none", op |-> NoOp, outcome |-> "none", how |-> "none",
           msg |-> "request", explicit |-> FALSE, hadPending |-> FALSE,
           created_at |-> 0, at |-> 0, stored |-> FALSE]

WmInit ==
  /\ pending = <<>>
  /\ wmNow = 0
  /\ smState = "idle"
  /\ turnPc = "idle"
  /\ turnMsg = "request"
  /\ turnExplicit = FALSE
  /\ hadPending = {}
  /\ approved = NoAction
  /\ steps = 0
  /\ poppedAt = 0
  /\ lastCall = NoCall

WmOthers == PgApart

WmTick ==
  /\ wmNow < MaxWmNow
  /\ wmNow' = wmNow + TickSeconds
  /\ UNCHANGED <<pending, smState, turnPc, turnMsg, turnExplicit, hadPending, approved, steps, poppedAt, lastCall>>
  /\ UNCHANGED pgVars
  /\ WmOthers

\* A message arrives: the counters are reset; an affirmative message while
\* approval is awaited pops the pending action, a refusal clears the list.
TurnStart(msg, explicit) ==
  LET live == get_pending_actions(pending, wmNow)
      pop  == pop_pending_action(pending, NoName, wmNow)
      confirming == smState = "awaiting_approval" /\ msg = "affirm"
  IN
  /\ turnPc = "idle"
  /\ StartRunCore("turn")
  /\ turnMsg' = msg
  /\ turnExplicit' = explicit
  /\ hadPending' = { live[i].tool_name : i \in 1..Len(live) }
  /\ steps' = 0
  /\ poppedAt' = wmNow
  /\ smState' = "thinking"
  /\ IF confirming
     THEN /\ approved' = pop.action
          /\ pending' = pop.pending
          /\ turnPc' = IF pop.action = NoAction THEN "loop" ELSE "approved"
     ELSE /\ approved' = NoAction
          /\ pending' = IF msg = "deny" THEN clear_pending_actions(live) ELSE live
          /\ turnPc' = "loop"
  /\ UNCHANGED <<wmNow, lastCall>>
  /\ WmOthers

\* The confirmed action goes through the gate and is executed.
ExecApproved ==
  /\ turnPc = "approved"
  /\ CheckWith(approved.tool_name, approved.op, TRUE)
  /\ lastCall' = [tool |-> approved.tool_name, op |-> approved.op,
                  outcome |-> IF lastCheck'.allowed THEN "executed" ELSE "denied",
                  how |-> "approved", msg |-> turnMsg, explicit |-> turnExplicit,
                  hadPending |-> approved.tool_name \in hadPending,
                  created_at |-> approved.created_at, at |-> poppedAt, stored |-> FALSE]
  /\ approved' = NoAction
  /\ turnPc' = "idle"
  /\ smState' = "idle"
  /\ UNCHANGED <<pending, wmNow, turnMsg, turnExplicit, hadPending, steps, poppedAt>>
  /\ WmOthers

\* The LLM asks for a tool: gate, then either the proposal is stashed and
\* the user is asked to confirm, or the tool is executed.
ToolRequest(tool_name, op) ==
  LET confirmed == turnExplicit /\ tool_name \notin hadPending
      stash == get_risk_level(tool_name, op) = "irreversible" /\ ~confirmed
  IN
  /\ turnPc = "loop"
  /\ steps < MaxSteps
  /\ CheckCore(tool_name, op)
  /\ IF ~lastCheck'.allowed
     THEN /\ steps' = steps + 1
          /\ UNCHANGED <<pending, smState, turnPc>>
     ELSE IF stash
          THEN /\ pending' = add_pending_action(pending, tool_name, op, wmNow)
               /\ smState' = "awaiting_approval"
               /\ turnPc' = "idle"
               /\ UNCHANGED steps
          ELSE /\ steps' = steps + 1
               /\ smState' = "executing"
               /\ UNCHANGED <<pending, turnPc>>
  /\ lastCall' = [tool |-> tool_name, op |-> op,
                  outcome |-> IF ~lastCheck'.allowed THEN "denied"
                              ELSE IF stash THEN "stashed" ELSE "executed",
                  how |-> "direct", msg |-> turnMsg, explicit |-> turnExplicit,
                  hadPending |-> tool_name \in hadPending,
                  created_at |-> wmNow, at |-> wmNow,
                  stored |-> \E i \in 1..Len(pending') : pending'[i].tool_name = tool_name]
  /\ UNCHANGED <<wmNow, turnMsg, turnExplicit, hadPending, approved, poppedAt>>
  /\ WmOthers

\* The reply is sent, the turn is persisted and the state machine is reset.
TurnEnd ==
  /\ turnPc = "loop"
  /\ turnPc' = "idle"
  /\ smState' = "idle"
  /\ UNCHANGED <<pending, wmNow, turnMsg, turnExplicit, hadPending, approved, steps, poppedAt, lastCall>>
  /\ UNCHANGED pgVars
  /\ WmOthers

TurnNext ==
  \/ \E msg \in MsgKinds, explicit \in BOOLEAN : TurnStart(msg, explicit)
  \/ ExecApproved
  \/ \E call \in TurnCalls : ToolRequest(call[1], call[2])
  \/ TurnEnd
  \/ WmTick

----
(***************************************************************************)
(* Dead letter queue: src/core/nervous_system/dead_letter_queue.py         *)
(***************************************************************************)

MAX_DLQ_SIZE == 100
max_retries == 3

DlqKeys == {"k1", "k2"}

\* Size of a dead_letter_queue.json left nearly full by earlier processes.
PriorSize == MAX_DLQ_SIZE - 2

\* An item of the queue; at stands for dead_lettered_at.
DlqItem(key, failure_count, at) == [key |-> key, failure_count |-> failure_count, at |-> at]

\* The queue without the trim to MAX_DLQ_SIZE.
add_to_dlq_no_trim(items, key, failure_count, at) ==
  Append(items, DlqItem(key, failure_count, at))

\* _add_to_dlq: append, keep the last MAX_DLQ_SIZE.
add_to_dlq(items, key, failure_count, at) ==
  LastN(Append(items, DlqItem(key, failure_count, at)), MAX_DLQ_SIZE)

\* Dead-lettering only after one failure more.
record_failure_late(fc, items, key, at) ==
  LET count == fc[key] + 1 IN
  IF count > max_retries
  THEN [dead |-> TRUE, counts |-> [fc EXCEPT ![key] = 0],
        items |-> add_to_dlq(items, key, count, at)]
  ELSE [dead |-> FALSE, counts |-> [fc EXCEPT ![key] = count], items |-> items]

\* record_failure: what it returns, the counters and the queue after it.
record_failure(fc, items, key, at) ==
  LET count == fc[key] + 1 IN
  IF count >= max_retries
  THEN [dead |-> TRUE, counts |-> [fc EXCEPT ![key] = 0],
        items |-> add_to_dlq(items, key, count, at)]
  ELSE [dead |-> FALSE, counts |-> [fc EXCEPT ![key] = count], items |-> items]

record_success(fc, key) == [fc EXCEPT ![key] = 0]

get_items(items, limit) == LastN(items, limit)

NoDlqOp == [op |-> "none", key |-> "", dead |-> FALSE, before |-> 0,
            appended |-> 0, counter |-> 0, othersKept |-> TRUE, limit |-> 0,
            result |-> <<>>]

\* The queue starts on a file of n items.
DlqInit(n) ==
  /\ failure_counts = [k \in DlqKeys |-> 0]
  /\ dlq_items = [i \in 1..n |-> DlqItem("k1", max_retries, i - n)]
  /\ dlqSeq = 0
  /\ failsSince = [k \in DlqKeys |-> 0]
  /\ dlqHist = dlq_items
  /\ lastDlq = NoDlqOp

DlqOthers == UNCHANGED <<coreVars, wpVars, trVars, rmVars, thirdVars>>

RecordFailure(key) ==
  LET r == record_failure(failure_counts, dlq_items, key, dlqSeq + 1) IN
  /\ dlqSeq < MaxDead
  /\ failure_counts' = r.counts
  /\ dlq_items' = r.items
  /\ dlqSeq' = IF r.dead THEN dlqSeq + 1 ELSE dlqSeq
  /\ failsSince' = [failsSince EXCEPT ![key] = (@ + 1) % max_retries]
  /\ dlqHist' = IF r.dead THEN Append(dlqHist, DlqItem(key, failure_counts[key] + 1, dlqSeq + 1))
                ELSE dlqHist
  /\ lastDlq' = [op |-> "record_failure", key |-> key, dead |-> r.dead,
                 before |-> failsSince[key],
                 appended |-> IF r.items = dlq_items THEN 0
                              ELSE IF r.items = LastN(Append(dlq_items, r.items[Len(r.items)]), MAX_DLQ_SIZE)
                                   THEN 1 ELSE 2,
                 counter |-> r.counts[key],
                 othersKept |-> \A k \in DlqKeys \ {key} : r.counts[k] = failure_counts[k],
                 limit |-> 0, result |-> <<>>]
  /\ DlqOthers

RecordSuccess(key) ==
  /\ failure_counts' = record_success(failure_counts, key)
  /\ failsSince' = [failsSince EXCEPT ![key] = 0]
  /\ lastDlq' = [NoDlqOp EXCEPT !.op = "record_success", !.key = key]
  /\ UNCHANGED <<dlq_items, dlqSeq, dlqHist>>
  /\ DlqOthers

\* clear(): the queue and every counter are emptied.
DlqClear ==
  /\ dlq_items' = <<>>
  /\ failure_counts' = [k \in DlqKeys |-> 0]
  /\ failsSince' = [k \in DlqKeys |-> 0]
  /\ dlqHist' = <<>>
  /\ lastDlq' = [NoDlqOp EXCEPT !.op = "clear"]
  /\ UNCHANGED dlqSeq
  /\ DlqOthers

GetItems(limit) ==
  /\ lastDlq' = [NoDlqOp EXCEPT !.op = "get_items", !.limit = limit,
                                 !.result = get_items(dlq_items, limit)]
  /\ UNCHANGED <<failure_counts, dlq_items, dlqSeq, failsSince, dlqHist>>
  /\ DlqOthers

DlqNext ==
  \/ \E key \in DlqKeys : RecordFailure(key)
  \/ \E key \in DlqKeys : RecordSuccess(key)
  \/ DlqClear
  \/ \E limit \in {1, 20} : GetItems(limit)

\* C12: record_failure returns dead-lettered exactly on the 3rd failure of the
\* key since its counter was last cleared; that call appends exactly one item
\* and clears the counter; the 1st and 2nd failures append nothing, and the
\* counters of the other keys are not touched.
C12_DeadLetterOnThirdFailure ==
  lastDlq.op = "record_failure" =>
    /\ lastDlq.dead <=> lastDlq.before = 2
    /\ lastDlq.dead => (lastDlq.appended = 1 /\ lastDlq.counter = 0)
    /\ ~lastDlq.dead => (lastDlq.appended = 0 /\ lastDlq.counter = lastDlq.before + 1)
    /\ lastDlq.othersKept

\* A key is dead-lettered on its third failure while the other key has
\* failures of its own counted.
C12_Witness ==
  /\ lastDlq.op = "record_failure"
  /\ lastDlq.dead
  /\ \E k \in DlqKeys \ {lastDlq.key} : failure_counts[k] = 2

\* C13: the queue never holds more than 100 items, and they are the last
\* dead-lettered ones, oldest first.
C13_QueueKeepsLast100 ==
  /\ Len(dlq_items) <= 100
  /\ dlq_items = LastN(dlqHist, 100)
  /\ \A i \in 1..(Len(dlq_items) - 1) : dlq_items[i].at < dlq_items[i + 1].at
  /\ lastDlq.op = "get_items" => lastDlq.result = LastN(dlqHist, lastDlq.limit)

\* More than 100 items were dead-lettered and the oldest were dropped.
C13_Witness ==
  /\ Len(dlqHist) > 100
  /\ Len(dlq_items) = 100
  /\ dlq_items[100].key = "k2"

----
(***************************************************************************)
(* Working memory's pending actions, called in any order:                  *)
(* src/core/brain/working_memory.py                                        *)
(***************************************************************************)

PendingTools == {"email", "x_tool", "reminder", "shell"}

\* The parameters of the successive proposals, each different.
PendingLabels == <<"p1", "p2", "p3", "p4">>

\* pop_all_pending_actions: the live actions returned and the list left.
pop_all_pending_actions(p, t) ==
  [actions |-> get_pending_actions(p, t), pending |-> <<>>]

NoWmOp == [op |-> "none", tool |-> NoName, label |-> "", at |-> 0,
           before |-> <<>>, result |-> <<>>, again |-> FALSE]

WpInit ==
  /\ nAdded = 0
  /\ returned = {}
  /\ lastWm = NoWmOp

\* What the methods leave alone.
WpOthers ==
  /\ UNCHANGED <<smState, turnPc, turnMsg, turnExplicit, hadPending, approved, steps, poppedAt, lastCall>>
  /\ UNCHANGED <<obVars, svVars, memVars, pgVars, dlqVars, trVars, rmVars, thirdVars>>

WpTick ==
  /\ wmNow < MaxWmNow - TickSeconds
  /\ wmNow' = wmNow + TickSeconds
  /\ UNCHANGED <<pending, wpVars>>
  /\ WpOthers

AddPendingAction(tool_name) ==
  /\ nAdded < Len(PendingLabels)
  /\ nAdded' = nAdded + 1
  /\ pending' = add_pending_action(pending, tool_name, PendingLabels[nAdded + 1], wmNow)
  /\ lastWm' = [NoWmOp EXCEPT !.op = "add", !.tool = tool_name,
                              !.label = PendingLabels[nAdded + 1],
                              !.at = wmNow, !.before = pending]
  /\ UNCHANGED <<wmNow, returned>>
  /\ WpOthers

GetPendingActions ==
  /\ pending' = get_pending_actions(pending, wmNow)
  /\ lastWm' = [NoWmOp EXCEPT !.op = "get", !.at = wmNow, !.before = pending,
                              !.result = get_pending_actions(pending, wmNow)]
  /\ UNCHANGED <<wmNow, nAdded, returned>>
  /\ WpOthers

PopPendingAction(tool_name) ==
  LET r == pop_pending_action(pending, tool_name, wmNow)
      out == IF r.action = NoAction THEN <<>> ELSE <<r.action>>
  IN
  /\ pending' = r.pending
  /\ returned' = returned \cup { out[i].op : i \in 1..Len(out) }
  /\ lastWm' = [NoWmOp EXCEPT !.op = "pop", !.tool = tool_name, !.at = wmNow,
                              !.before = pending, !.result = out,
                              !.again = \E i \in 1..Len(out) : out[i].op \in returned]
  /\ UNCHANGED <<wmNow, nAdded>>
  /\ WpOthers

PopAllPendingActions ==
  LET r == pop_all_pending_actions(pending, wmNow) IN
  /\ pending' = r.pending
  /\ returned' = returned \cup { r.actions[i].op : i \in 1..Len(r.actions) }
  /\ lastWm' = [NoWmOp EXCEPT !.op = "pop_all", !.at = wmNow, !.before = pending,
                              !.result = r.actions,
                              !.again = \E i \in 1..Len(r.actions) : r.actions[i].op \in returned]
  /\ UNCHANGED <<wmNow, nAdded>>
  /\ WpOthers

ClearPendingActions ==
  /\ pending' = clear_pending_actions(pending)
  /\ lastWm' = [NoWmOp EXCEPT !.op = "clear", !.at = wmNow, !.before = pending]
  /\ UNCHANGED <<wmNow, nAdded, returned>>
  /\ WpOthers

PendingNext ==
  \/ \E tool_name \in PendingTools : AddPendingAction(tool_name)
  \/ GetPendingActions
  \/ \E tool_name \in PendingTools \cup {NoName} : PopPendingAction(tool_name)
  \/ PopAllPendingActions
  \/ ClearPendingActions
  \/ WpTick

\* The positions of the list p that hold an action of the tool.
EntriesOf(p, tool_name) == { i \in 1..Len(p) : p[i].tool_name = tool_name }

\* C14: the stored pending actions number at most 3, with at most one per
\* tool; after add_pending_action the one entry of that tool is the one just
\* added.
C14_AtMostThreeOnePerTool ==
  /\ Len(pending) <= 3
  /\ \A t \in PendingTools : Cardinality(EntriesOf(pending, t)) <= 1
  /\ lastWm.op = "add" =>
       /\ Cardinality(EntriesOf(pending, lastWm.tool)) = 1
       /\ pending[Len(pending)] =
            [tool_name |-> lastWm.tool, op |-> lastWm.label, created_at |-> lastWm.at]

\* An action is added for a tool that already had one while three were
\* stored.
C14_Witness ==
  /\ lastWm.op = "add"
  /\ Len(lastWm.before) = 3
  /\ EntriesOf(lastWm.before, lastWm.tool) # {}
  /\ Len(pending) = 3

\* The entries of p younger than 30 minutes at time t.
Fresh(p, t) == SelectSeq(p, LAMBDA a : t - a.created_at < 1800)

\* C15: pop_pending_action returns the most recently added live action (of
\* the tool, when one is named) and removes it, no action is returned by two
\* pops, and get / pop never return an action older than 30 minutes and leave
\* none in the stored list.
C15_PopReturnsMostRecentLive ==
  /\ lastWm.op = "pop" =>
       LET live == Fresh(lastWm.before, lastWm.at)
           cands == IF lastWm.tool = NoName THEN 1..Len(live) ELSE EntriesOf(live, lastWm.tool)
       IN IF cands = {}
          THEN lastWm.result = <<>> /\ pending = live
          ELSE LET top == CHOOSE i \in cands : \A j \in cands : j <= i IN
               /\ lastWm.result = <<live[top]>>
               /\ pending = RemoveAt(live, top)
  /\ ~lastWm.again
  /\ lastWm.op \in {"get", "pop", "pop_all"} =>
       /\ \A i \in 1..Len(lastWm.result) : lastWm.at - lastWm.result[i].created_at < 1800
       /\ \A i \in 1..Len(pending) : lastWm.at - pending[i].created_at < 1800
       /\ lastWm.op = "get" => (lastWm.result = Fresh(lastWm.before, lastWm.at) /\ pending = lastWm.result)

\* A pop without a tool skipped an expired action, returned the newest live
\* one and left an older live one stored.
C15_Witness ==
  /\ lastWm.op = "pop"
  /\ lastWm.tool = NoName
  /\ Len(lastWm.result) = 1
  /\ Len(lastWm.before) = 3
  /\ Len(pending) = 1

----
(***************************************************************************)
(* Task runner: src/core/task_runner.py.  The task queue, the decomposer   *)
(* and the agent are the runner's collaborators (spec 4.10).               *)
(***************************************************************************)

MAX_SUBTASK_RETRIES == 3

\* The tasks, in the order they were enqueued.
TaskOrder == <<"t1", "t2">>
Tasks == { TaskOrder[i] : i \in 1..Len(TaskOrder) }
NoTask == "none"

\* Subtasks a decomposition yields.
NumSubtasks == 2
SubIdx == 1..NumSubtasks

NotCancelled == NumSubtasks + 2

\* The status check never sees a cancellation.
cancelled_externally_never(status) == FALSE

\* fresh.status == "failed" (the re-read before each subtask).
cancelled_externally(status) == status = "failed"

\* dequeue_next: the first pending task, if any.
dequeue_next(st) ==
  LET pend == { i \in 1..Len(TaskOrder) : st[TaskOrder[i]] = "pending" }
  IN IF pend = {} THEN NoTask
     ELSE TaskOrder[CHOOSE i \in pend : \A j \in pend : i <= j]

\* One pass of the loop of _execute_subtask after agent.run returned or
\* raised: the result, or the next attempt.
execute_subtask_step(att, raised) ==
  IF ~raised THEN [returns |-> TRUE, result |-> "ok", attempt |-> att]
  ELSE IF att < MAX_SUBTASK_RETRIES - 1
       THEN [returns |-> FALSE, result |-> "", attempt |-> att + 1]
       ELSE [returns |-> TRUE, result |-> "ERROR", attempt |-> att]

\* update_subtask after the step: failed only if not the last subtask.
subtask_status(res, i, num_subtasks) ==
  IF res = "ERROR" /\ i < num_subtasks THEN "failed" ELSE "done"

TrInit ==
  /\ taskStatus = [t \in Tasks |-> "pending"]
  /\ subtasks = <<>>
  /\ runnerPc = "stopped"
  /\ curTask = NoTask
  /\ stepIdx = 0
  /\ attempt = 0
  /\ phase = "main"
  /\ lastTask = NoTask
  /\ runs = [i \in SubIdx |-> 0]
  /\ altPlans = [i \in SubIdx |-> 0]
  /\ mainFails = [i \in SubIdx |-> 0]
  /\ cancelledAt = NotCancelled
  /\ gateCancel = {}
  /\ templates = {}

TrOthers == UNCHANGED <<coreVars, dlqVars, wpVars, rmVars, thirdVars>>

TrHistory == <<lastTask, runs, altPlans, mainFails, cancelledAt, gateCancel>>

\* start(): the loop begins.
RunnerStart ==
  /\ runnerPc = "stopped"
  /\ runnerPc' = "poll"
  /\ UNCHANGED <<taskStatus, subtasks, curTask, stepIdx, attempt, phase, TrHistory>>
  /\ UNCHANGED templates
  /\ TrOthers

\* _process_next_task: nothing pending, or the next task is taken.
Poll ==
  LET t == dequeue_next(taskStatus) IN
  /\ runnerPc = "poll"
  /\ IF t = NoTask
     THEN UNCHANGED <<taskStatus, runnerPc, curTask, subtasks, TrHistory>>
     ELSE /\ taskStatus' = [taskStatus EXCEPT ![t] = "running"]
          /\ curTask' = t
          /\ runnerPc' = "decompose"
          /\ subtasks' = <<>>
          /\ lastTask' = t
          /\ runs' = [i \in SubIdx |-> 0]
          /\ altPlans' = [i \in SubIdx |-> 0]
          /\ mainFails' = [i \in SubIdx |-> 0]
          /\ cancelledAt' = NotCancelled
          /\ gateCancel' = {}
  /\ UNCHANGED <<stepIdx, attempt, phase>>
  /\ UNCHANGED templates
  /\ TrOthers

\* decompose returns; set_subtasks; the loop over the subtasks begins.
Decompose(flags) ==
  /\ runnerPc = "decompose"
  /\ subtasks' = [i \in SubIdx |-> [reversible |-> flags[i], status |-> "pending", result |-> ""]]
  /\ stepIdx' = 1
  /\ runnerPc' = "iter"
  /\ UNCHANGED <<taskStatus, curTask, attempt, phase, TrHistory>>
  /\ UNCHANGED templates
  /\ TrOthers

\* The top of one iteration: the subtask is marked running, the status of
\* the task is re-read, and the warning for an irreversible subtask is sent.
\* A cancelled task raises CancelledError, which the handler of
\* _process_next_task re-raises and start() does not catch.
IterStart ==
  /\ runnerPc = "iter"
  /\ stepIdx <= NumSubtasks
  /\ subtasks' = [subtasks EXCEPT ![stepIdx].status = "running"]
  /\ IF cancelled_externally(taskStatus[curTask])
     THEN /\ taskStatus' = [taskStatus EXCEPT ![curTask] = "failed"]
          /\ runnerPc' = "dead"
          /\ curTask' = NoTask
          /\ UNCHANGED <<attempt, phase>>
     ELSE /\ runnerPc' = IF subtasks[stepIdx].reversible THEN "exec" ELSE "gate"
          /\ attempt' = 0
          /\ phase' = "main"
          /\ UNCHANGED <<taskStatus, curTask>>
  /\ UNCHANGED <<stepIdx, TrHistory>>
  /\ UNCHANGED templates
  /\ TrOthers

\* _notify_irreversible_gate returns after its sleep.
GateDone ==
  /\ runnerPc = "gate"
  /\ runnerPc' = "exec"
  /\ UNCHANGED <<taskStatus, subtasks, curTask, stepIdx, attempt, phase, TrHistory>>
  /\ UNCHANGED templates
  /\ TrOthers

\* The subtask has its result: status, next subtask.
FinishSubtask(res) ==
  /\ subtasks' = [subtasks EXCEPT ![stepIdx].status =
                                     subtask_status(res, stepIdx, NumSubtasks),
                                   ![stepIdx].result = res]
  /\ stepIdx' = stepIdx + 1
  /\ runnerPc' = "iter"
  /\ phase' = "main"
  /\ attempt' = 0

\* One call of agent.run in _execute_subtask; after the last failed attempt
\* of the subtask itself an alternative plan may be obtained and executed by
\* _execute_subtask again.
Attempt(raised, alternative) ==
  LET r == execute_subtask_step(attempt, raised) IN
  /\ runnerPc = "exec"
  /\ runs' = [runs EXCEPT ![stepIdx] = @ + 1]
  /\ mainFails' = IF raised /\ phase = "main"
                  THEN [mainFails EXCEPT ![stepIdx] = @ + 1] ELSE mainFails
  /\ IF ~r.returns
     THEN /\ attempt' = r.attempt
          /\ UNCHANGED <<subtasks, stepIdx, runnerPc, phase, altPlans>>
     ELSE IF r.result = "ERROR" /\ phase = "main" /\ alternative
          THEN /\ altPlans' = [altPlans EXCEPT ![stepIdx] = @ + 1]
               /\ phase' = "alt"
               /\ attempt' = 0
               /\ UNCHANGED <<subtasks, stepIdx, runnerPc>>
          ELSE /\ FinishSubtask(r.result)
               /\ UNCHANGED altPlans
  /\ UNCHANGED <<taskStatus, curTask, lastTask, cancelledAt, gateCancel>>
  /\ UNCHANGED templates
  /\ TrOthers

\* Scores in tenths.  critic_score = 0.8 when no critic is configured, when
\* its evaluation raises, and after a refinement pass.
DEFAULT_SCORE == 8

\* critic_score >= 0.7
TEMPLATE_MIN_SCORE == 7

\* No critic evaluation returned a score.
NoScore == 0

\* What the critic does: there is none, evaluate raises, or it returns
\* score, passed and a refinement hint or none, and refine returns a text
\* or nothing.
CriticOutcomes ==
  [kind : {"none", "raises"}, score : {NoScore}, passed : {TRUE}, hint : {FALSE}, refined : {FALSE}]
    \cup [kind : {"evaluates"}, score : {5, 7, 9}, passed : BOOLEAN, hint : BOOLEAN, refined : BOOLEAN]

\* The score the critic's evaluation returned for the task.
evaluated_score(critic) == IF critic.kind = "evaluates" THEN critic.score ELSE NoScore

\* critic_score after step 3.
critic_score_of(critic) ==
  IF critic.kind # "evaluates" THEN DEFAULT_SCORE
  ELSE IF ~critic.passed /\ critic.hint /\ critic.refined THEN DEFAULT_SCORE
  ELSE critic.score

\* After the last subtask: the critic, the template store, mark_done, and
\* back to the loop's sleep.  library: there is no template library, its
\* store succeeds, or its store raises.
Finalize(critic, library) ==
  /\ runnerPc = "iter"
  /\ stepIdx > NumSubtasks
  /\ templates' = IF library = "stores" /\ critic_score_of(critic) >= TEMPLATE_MIN_SCORE
                  THEN templates \cup {[task |-> curTask, score |-> critic_score_of(critic),
                                        evaluated |-> evaluated_score(critic)]}
                  ELSE templates
  /\ taskStatus' = [taskStatus EXCEPT ![curTask] = "done"]
  /\ runnerPc' = "poll"
  /\ curTask' = NoTask
  /\ UNCHANGED <<subtasks, stepIdx, attempt, phase, TrHistory>>
  /\ TrOthers

\* decompose or a notification raises: mark_failed, the loop goes on.
TaskError ==
  /\ runnerPc \in {"decompose", "iter"}
  /\ taskStatus' = [taskStatus EXCEPT ![curTask] = "failed"]
  /\ runnerPc' = "poll"
  /\ curTask' = NoTask
  /\ UNCHANGED <<subtasks, stepIdx, attempt, phase, TrHistory>>
  /\ UNCHANGED templates
  /\ TrOthers

\* The user stops a running task: its status is set to failed.
CancelTask(t) ==
  /\ taskStatus[t] = "running"
  /\ taskStatus' = [taskStatus EXCEPT ![t] = "failed"]
  /\ cancelledAt' = IF runnerPc = "decompose" THEN 1
                     ELSE IF runnerPc = "iter" THEN stepIdx ELSE stepIdx + 1
  /\ gateCancel' = IF runnerPc = "gate" THEN gateCancel \cup {stepIdx} ELSE gateCancel
  /\ UNCHANGED <<subtasks, runnerPc, curTask, stepIdx, attempt, phase, lastTask, runs, altPlans, mainFails>>
  /\ UNCHANGED templates
  /\ TrOthers

RunnerNext ==
  \/ RunnerStart
  \/ Poll
  \/ \E flags \in [SubIdx -> BOOLEAN] : Decompose(flags)
  \/ IterStart
  \/ GateDone
  \/ \E raised \in BOOLEAN, alternative \in BOOLEAN : Attempt(raised, alternative)
  \/ \E critic \in CriticOutcomes, library \in {"none", "stores", "raises"} :
       Finalize(critic, library)
  \/ TaskError
  \/ \E t \in Tasks : CancelTask(t)

\* The subtask i of the task last taken has terminated.
Terminated(i) == subtasks # <<>> /\ subtasks[i].status \in {"done", "failed"}

\* C16: a subtask is executed only after every earlier subtask of its task
\* has terminated, and a task cancelled before its subtask i was started
\* never has i or a later subtask executed.
C16_SubtasksInOrder ==
  /\ \A i \in SubIdx, j \in SubIdx : (i < j /\ runs[j] > 0) => Terminated(i)
  /\ \A i \in SubIdx : (runnerPc \in {"gate", "exec"} /\ stepIdx = i)
                          => \A j \in SubIdx : j > i => runs[j] = 0
  /\ \A j \in SubIdx : j >= cancelledAt => runs[j] = 0

\* The second task was cancelled while its first subtask ran, and the runner
\* stopped before the second subtask.
C16_Witness ==
  /\ lastTask = "t2"
  /\ cancelledAt = 2
  /\ runs[1] > 0
  /\ subtasks[2].status = "running"
  /\ taskStatus[lastTask] = "failed"
  /\ curTask = NoTask

\* C17: the loop of start() survives every outcome of a task.
C17_LoopNeverDies == runnerPc # "dead"

\* C18: a task cancelled in the warning window of an irreversible subtask
\* does not have that subtask executed.
C18_CancelInWindowPreventsSubtask ==
  \A i \in gateCancel : runs[i] = 0

\* C19: the subtask itself is attempted at most 3 times, an alternative plan
\* is requested at most once and only after 3 failed attempts, and agent.run
\* is called at most 4 times for one subtask.
C19_AtMostFourRuns ==
  \A i \in SubIdx :
    /\ altPlans[i] <= 1
    /\ altPlans[i] = 1 => mainFails[i] = 3
    /\ mainFails[i] <= 3
    /\ runs[i] <= 4

\* C39: a subtask is recorded done only if its final result is no error; a
\* subtask whose final result starts with ERROR is recorded failed, the last
\* subtask of the plan included.
C39_ErrorResultRecordedFailed ==
  \A i \in DOMAIN subtasks :
    /\ subtasks[i].status = "done" => subtasks[i].result # "ERROR"
    /\ subtasks[i].result = "ERROR" => subtasks[i].status = "failed"

\* C30: no template in the library belongs to a task whose critic
\* evaluation returned a score below 0.7.
C30_TemplateOnlyIfScoreAtLeast07 ==
  \A tpl \in templates :
    tpl.evaluated # NoScore => tpl.evaluated >= TEMPLATE_MIN_SCORE

----
(***************************************************************************)
(* Reminders: src/core/tools/reminder.py, and the scheduler that fires     *)
(* them (spec 4.11).                                                       *)
(***************************************************************************)

\* The ids uuid4 hands out, one after the other.
ReminderIds == <<"r1", "r2", "r3">>
RemIdSet == { ReminderIds[i] : i \in 1..Len(ReminderIds) }

\* The status of the reminder with this id, "absent" if there is none.
StatusOf(rs, id) ==
  LET hits == { i \in 1..Len(rs) : rs[i].id = id }
  IN IF hits = {} THEN "absent" ELSE rs[CHOOSE i \in hits : TRUE].status

\* _set_reminder: a reminder in the past is refused, otherwise appended.
set_reminder(rs, id, remind_at, t) ==
  IF remind_at < t THEN [success |-> FALSE, reminders |-> rs]
  ELSE [success |-> TRUE,
        reminders |-> Append(rs, [id |-> id, remind_at |-> remind_at, status |-> "pending"])]

\* A cancellation that reports success and stores nothing.
cancel_reminder_unsaved(rs, reminder_id) ==
  [success |-> \E i \in 1..Len(rs) : rs[i].id = reminder_id /\ rs[i].status = "pending",
   reminders |-> rs]

\* _cancel_reminder: the first pending reminder of that id becomes cancelled.
cancel_reminder(rs, reminder_id) ==
  LET hits == { i \in 1..Len(rs) : rs[i].id = reminder_id /\ rs[i].status = "pending" }
  IN IF hits = {} THEN [success |-> FALSE, reminders |-> rs]
     ELSE LET first == CHOOSE i \in hits : \A j \in hits : i <= j
          IN [success |-> TRUE, reminders |-> [rs EXCEPT ![first].status = "cancelled"]]

\* The indices of the pending reminders that are due at time t.
Due(rs, t) == { i \in 1..Len(rs) : rs[i].status = "pending" /\ rs[i].remind_at <= t }

\* The scheduler's transition: every due pending reminder becomes fired.
fire_due(rs, t) ==
  [i \in 1..Len(rs) |-> IF i \in Due(rs, t) THEN [rs[i] EXCEPT !.status = "fired"] ELSE rs[i]]

\* The ids whose reminder is fired or cancelled.
FinalIds(rs) == { rs[i].id : i \in { j \in 1..Len(rs) : rs[j].status \in {"fired", "cancelled"} } }

RmInit ==
  /\ reminders = <<>>
  /\ rmNow = 0
  /\ toDeliver = {}
  /\ delivered = [id \in RemIdSet |-> 0]
  /\ firedOk = {}
  /\ cancelledOk = {}
  /\ everFinal = {}

RmOthers == UNCHANGED <<coreVars, dlqVars, wpVars, trVars, thirdVars>>

RmTick ==
  /\ rmNow < MaxRmNow
  /\ rmNow' = rmNow + 1
  /\ UNCHANGED <<reminders, toDeliver, delivered, firedOk, cancelledOk, everFinal>>
  /\ RmOthers

SetReminder(remind_at) ==
  LET r == set_reminder(reminders, ReminderIds[Len(reminders) + 1], remind_at, rmNow) IN
  /\ Len(reminders) < Len(ReminderIds)
  /\ reminders' = r.reminders
  /\ everFinal' = everFinal \cup FinalIds(r.reminders)
  /\ UNCHANGED <<rmNow, toDeliver, delivered, firedOk, cancelledOk>>
  /\ RmOthers

CancelReminder(reminder_id) ==
  LET r == cancel_reminder(reminders, reminder_id) IN
  /\ reminders' = r.reminders
  /\ cancelledOk' = IF r.success THEN cancelledOk \cup {reminder_id} ELSE cancelledOk
  /\ everFinal' = everFinal \cup FinalIds(r.reminders)
  /\ UNCHANGED <<rmNow, toDeliver, delivered, firedOk>>
  /\ RmOthers

\* One tick of the scheduler: the due reminders are written as fired, and
\* only then handed to the notifier.
SchedulerTick ==
  LET marked == fire_due(reminders, rmNow)
      newly == { i \in 1..Len(marked) : marked[i].status = "fired" /\ reminders[i].status # "fired" }
  IN
  /\ reminders' = marked
  /\ toDeliver' = toDeliver \cup { marked[i].id : i \in newly }
  /\ firedOk' = firedOk \cup { marked[i].id : i \in { j \in newly :
                                  reminders[j].status = "pending" /\ reminders[j].remind_at <= rmNow } }
  /\ everFinal' = everFinal \cup FinalIds(marked)
  /\ UNCHANGED <<rmNow, delivered, cancelledOk>>
  /\ RmOthers

\* The notifier is called for a fired reminder; a failed call is tried
\* again on a later tick.
Deliver(id, ok) ==
  /\ id \in toDeliver
  /\ IF ok
     THEN /\ delivered' = [delivered EXCEPT ![id] = @ + 1]
          /\ toDeliver' = toDeliver \ {id}
     ELSE UNCHANGED <<delivered, toDeliver>>
  /\ UNCHANGED <<reminders, rmNow, firedOk, cancelledOk, everFinal>>
  /\ RmOthers

ReminderNext ==
  \/ RmTick
  \/ \E remind_at \in 0..MaxRmNow : SetReminder(remind_at)
  \/ \E reminder_id \in RemIdSet : CancelReminder(reminder_id)
  \/ SchedulerTick
  \/ \E id \in RemIdSet, ok \in BOOLEAN : Deliver(id, ok)

\* C20: a reminder is delivered at most once, and only after it became fired
\* while pending and due; a reminder cancelled before that is never
\* delivered; a fired or cancelled reminder is never pending again.
C20_ReminderDeliveredAtMostOnce ==
  \A id \in RemIdSet :
    /\ delivered[id] <= 1
    /\ (delivered[id] > 0 \/ id \in toDeliver) =>
         (id \in firedOk /\ StatusOf(reminders, id) = "fired")
    /\ id \in cancelledOk => (delivered[id] = 0 /\ id \notin toDeliver)
    /\ id \in everFinal => StatusOf(reminders, id) \in {"fired", "cancelled"}

\* One reminder was delivered, another was cancelled while pending and its
\* time has passed.
C20_Witness ==
  \E a \in RemIdSet, b \in RemIdSet :
    /\ delivered[a] = 1
    /\ b \in cancelledOk
    /\ \E i \in 1..Len(reminders) : reminders[i].id = b /\ reminders[i].remind_at < rmNow

----
(***************************************************************************)
(* Attention engine: src/core/brain/attention_engine.py                    *)
(***************************************************************************)

\* CHECK_INTERVAL, in hours.
CHECK_INTERVAL_HOURS == 6

\* timedelta(hours=24)
DEDUP_HOURS == 24

\* len(log) > 100: the 20 oldest entries are deleted.
ATT_LOG_MAX == 100
ATT_PRUNE == 20

\* An observation: the topic is its first 50 characters without their case,
\* casing and tail are the rest of what distinguishes two texts.
AttTopics == {1, ATT_LOG_MAX + 1}
Observations == [topic : AttTopics, casing : {"lower", "Title"}, tail : {"", "more"}]

\* The lists of observations the LLM returns.
ObservationLists == {<<>>} \cup { <<o>> : o \in Observations }
                      \cup { <<[topic |-> a, casing |-> "lower", tail |-> ""],
                              [topic |-> b, casing |-> "Title", tail |-> "more"]>> :
                                a \in AttTopics, b \in AttTopics }

\* observation[:50].lower()
obs_key(o) == o.topic

\* The position of the key in the log, 0 if absent.
LogIndex(log, key) ==
  LET hits == { i \in 1..Len(log) : log[i].key = key }
  IN IF hits = {} THEN 0 ELSE CHOOSE i \in hits : TRUE

\* _already_sent: the key is in the log with a time less than 24 h ago.
already_sent(log, o, t) ==
  LET i == LogIndex(log, obs_key(o))
  IN i # 0 /\ t - log[i].at < DEDUP_HOURS

\* sorted(log.items(), key=time)[:20]: the positions of the 20 oldest
\* entries, earlier insertion first among equal times.
Oldest(log, n) ==
  { i \in 1..Len(log) :
      Cardinality({ j \in 1..Len(log) :
                      log[j].at < log[i].at \/ (log[j].at = log[i].at /\ j < i) }) < n }

\* _mark_sent: the key gets the time t; a log of more than 100 entries
\* loses its 20 oldest.
mark_sent_att(log, o, t) ==
  LET i == LogIndex(log, obs_key(o))
      put == IF i = 0 THEN Append(log, [key |-> obs_key(o), at |-> t])
             ELSE [log EXCEPT ![i].at = t]
      old == Oldest(put, ATT_PRUNE)
      keep == { j \in 1..Len(put) : j \notin old }
      Nth(k) == CHOOSE j \in keep : Cardinality({ m \in keep : m <= j }) = k
  IN IF Len(put) > ATT_LOG_MAX
     THEN [k \in 1..Cardinality(keep) |-> put[Nth(k)]]
     ELSE put

RECURSIVE MarkAll(_, _, _)
\* for o in new_obs: self._mark_sent(o)
MarkAll(log, obs, t) ==
  IF obs = <<>> THEN log
  ELSE MarkAll(mark_sent_att(log, obs[1], t), Tail(obs), t)

\* 7 <= now.hour <= 21
waking_hours(t) == 7 <= t % 24 /\ t % 24 <= 21

\* The observations of a scan that are not filtered out.
new_observations(log, observations, t) ==
  SelectSeq(observations, LAMBDA o : ~already_sent(log, o, t))

NoScan == [at |-> 0, observations |-> <<>>, delivered |-> <<>>, repeats |-> {}, same |-> FALSE,
           marked |-> {}]

\* The engine starts at 7 in the morning on a log of n entries written
\* within the hour.
AtInit(n) ==
  /\ attLog = [i \in 1..n |-> [key |-> i, at |-> 7]]
  /\ attNow = 7
  /\ attPc = "scan"
  /\ attSent = { <<i, 7>> : i \in 1..n }
  /\ prevScan = [at |-> 0, observations |-> <<>>, done |-> FALSE]
  /\ lastScan = NoScan

AtOthers == UNCHANGED <<coreVars, dlqVars, wpVars, trVars, rmVars, chVars, brVars, thVars, rgVars, tgVars, mcVars, dgVars, grVars, stVars, wiVars>>

\* The loop sleeps CHECK_INTERVAL.
AttSleep ==
  /\ attPc = "sleep"
  /\ attNow < MaxAttNow
  /\ attNow' = attNow + CHECK_INTERVAL_HOURS
  /\ attPc' = "scan"
  /\ UNCHANGED <<attLog, attSent, prevScan, lastScan>>
  /\ AtOthers

\* _scan_and_surface with the observations the LLM generated; notified
\* tells whether _notify_with_header delivered them: it returns without a
\* word when there is no notifier and when telegram.notify raises.
ScanAndSurface(observations, notified) ==
  LET new_obs == IF waking_hours(attNow)
                 THEN new_observations(attLog, observations, attNow) ELSE <<>>
      sent == IF notified THEN new_obs ELSE <<>>
      keys == { obs_key(sent[i]) : i \in 1..Len(sent) }
  IN
  /\ attPc = "scan"
  /\ attPc' = "sleep"
  /\ attLog' = MarkAll(attLog, new_obs, attNow)
  /\ attSent' = attSent \cup { <<k, attNow>> : k \in keys }
  /\ lastScan' = [at |-> attNow, observations |-> observations, delivered |-> sent,
                  marked |-> { obs_key(new_obs[i]) : i \in 1..Len(new_obs) },
                  repeats |-> { k \in keys : \E p \in attSent :
                                   p[1] = k /\ attNow - p[2] < DEDUP_HOURS },
                  same |-> /\ prevScan.done
                           /\ prevScan.observations = observations
                           /\ attNow - prevScan.at < DEDUP_HOURS]
  /\ prevScan' = IF waking_hours(attNow)
                 THEN [at |-> attNow, observations |-> observations, done |-> TRUE]
                 ELSE prevScan
  /\ UNCHANGED attNow
  /\ AtOthers

AttentionNext ==
  \/ AttSleep
  \/ \E observations \in ObservationLists, notified \in BOOLEAN :
       ScanAndSurface(observations, notified)

\* C21: a scan delivers no observation whose 50-character prefix was
\* delivered less than 24 hours before, and a scan with the observations of
\* the scan before it, less than 24 hours later, delivers nothing.
C21_NoRepeatWithin24h ==
  /\ lastScan.repeats = {}
  /\ lastScan.same => lastScan.delivered = <<>>

\* C40: an observation is marked in the dedup log only after the notifier
\* delivered it: a scan whose delivery failed marks nothing.
C40_MarkedOnlyIfDelivered ==
  \A k \in lastScan.marked :
    \E i \in 1..Len(lastScan.delivered) : obs_key(lastScan.delivered[i]) = k

(***************************************************************************)
(* Inbound channel adapters: src/channels/telegram_channel.py,             *)
(* twilio_whatsapp_channel.py, twilio_voice_channel.py.  The conversation  *)
(* manager they call serializes the turns of a user on a channel (spec     *)
(* 4.9, 5).                                                                *)
(***************************************************************************)

Channels == {"telegram", "whatsapp", "voice"}

\* The numbers and chat ids messages come from; the WhatsApp ones carry
\* the prefix "whatsapp:" or not.
Numbers == {"owner", "stranger"}
Senders == [num : Numbers, prefixed : BOOLEAN]

\* TelegramChannel.chat_id
chat_id == "owner"

\* phone_number.replace('whatsapp:', '')
clean_number(sender) == sender.num

\* The user ids the adapters pass on.
UserIds == Numbers \cup {"principal"}

\* TwilioWhatsAppChannel._is_allowed
_is_allowed(allowed, sender) ==
  IF allowed = {} THEN TRUE ELSE clean_number(sender) \in allowed

\* "Srinath (Principal)" for a number of the list, the number otherwise.
user_id_of(allowed, sender) ==
  IF clean_number(sender) \in allowed THEN "principal" ELSE clean_number(sender)

\* TwilioVoiceChannel._get_user_number
_get_user_number(allowed, sender) == user_id_of(allowed, sender)

\* The identity is on the allow-list of the adapter.
OnAllowList(m) ==
  IF m.channel = "telegram" THEN m.sender.num = chat_id
  ELSE m.sender.num \in chAllowed[m.channel]

TurnKeys == Channels \X UserIds

ChInit(nums) ==
  /\ chAllowed = [c \in {"whatsapp", "voice"} |-> nums]
  /\ msgs = <<>>
  /\ turnQueue = [k \in TurnKeys |-> <<>>]
  /\ turnActive = [k \in TurnKeys |-> 0]
  /\ started = <<>>

ChOthers == UNCHANGED <<coreVars, dlqVars, wpVars, trVars, rmVars, atVars, brVars, thVars, rgVars, tgVars, mcVars, dgVars, grVars, stVars, wiVars>>

\* A turn of the same user and channel is being processed or waiting.
TurnInProgress(k) == turnActive[k] # 0 \/ turnQueue[k] # <<>>

\* The webhook's message is dropped.
Drop(channel, sender) ==
  /\ msgs' = Append(msgs, [channel |-> channel, sender |-> sender, user |-> "stranger",
                           pc |-> "dropped", behind |-> FALSE])
  /\ UNCHANGED <<chAllowed, turnQueue, turnActive, started>>

\* conversation_manager.process_message is called for message i: the call
\* waits for its turn behind the earlier calls of the user on the channel.
process_message(i, k) ==
  turnQueue' = [turnQueue EXCEPT ![k] = Append(@, i)]

\* TelegramChannel.handle_webhook
TelegramWebhook(sender, text) ==
  /\ Len(msgs) < MaxMsgs
  /\ IF sender.num # chat_id \/ text = ""
     THEN Drop("telegram", sender)
     ELSE /\ msgs' = Append(msgs, [channel |-> "telegram", sender |-> sender,
                                   user |-> sender.num, pc |-> "status",
                                   behind |-> TurnInProgress(<<"telegram", sender.num>>)])
          /\ UNCHANGED <<chAllowed, turnQueue, turnActive, started>>
  /\ ChOthers

\* TelegramChannel._process_and_respond, up to the call of process_message:
\* the status message is sent, or sending it raises and the error is
\* reported instead.
TelegramStatus(i, raised) ==
  /\ i \in 1..Len(msgs)
  /\ msgs[i].pc = "status"
  /\ IF raised
     THEN /\ msgs' = [msgs EXCEPT ![i].pc = "error"]
          /\ UNCHANGED turnQueue
     ELSE /\ msgs' = [msgs EXCEPT ![i].pc = "queued"]
          /\ process_message(i, <<"telegram", msgs[i].user>>)
  /\ UNCHANGED <<chAllowed, turnActive, started>>
  /\ ChOthers

\* TwilioWhatsAppChannel.handle_webhook, up to the call of process_message.
WhatsAppWebhook(sender, body) ==
  LET user == user_id_of(chAllowed["whatsapp"], sender)
  IN
  /\ Len(msgs) < MaxMsgs
  /\ IF body = "" \/ ~_is_allowed(chAllowed["whatsapp"], sender)
     THEN Drop("whatsapp", sender)
     ELSE /\ msgs' = Append(msgs, [channel |-> "whatsapp", sender |-> sender,
                                   user |-> user, pc |-> "queued",
                                   behind |-> TurnInProgress(<<"whatsapp", user>>)])
          /\ process_message(Len(msgs) + 1, <<"whatsapp", user>>)
          /\ UNCHANGED <<chAllowed, turnActive, started>>
  /\ ChOthers

\* TwilioVoiceChannel.handle_gather, up to the call of process_message.
VoiceGather(sender, speech_result) ==
  LET user == _get_user_number(chAllowed["voice"], sender)
  IN
  /\ Len(msgs) < MaxMsgs
  /\ IF speech_result = ""
     THEN Drop("voice", sender)
     ELSE /\ msgs' = Append(msgs, [channel |-> "voice", sender |-> sender,
                                   user |-> user, pc |-> "queued",
                                   behind |-> TurnInProgress(<<"voice", user>>)])
          /\ process_message(Len(msgs) + 1, <<"voice", user>>)
          /\ UNCHANGED <<chAllowed, turnActive, started>>
  /\ ChOthers

\* The conversation manager begins the turn of the oldest waiting call.
TurnBegin(k) ==
  /\ turnActive[k] = 0
  /\ turnQueue[k] # <<>>
  /\ turnActive' = [turnActive EXCEPT ![k] = Head(turnQueue[k])]
  /\ turnQueue' = [turnQueue EXCEPT ![k] = Tail(@)]
  /\ msgs' = [msgs EXCEPT ![Head(turnQueue[k])].pc = "active"]
  /\ started' = Append(started, Head(turnQueue[k]))
  /\ UNCHANGED chAllowed
  /\ ChOthers

\* process_message returns and the adapter sends the assistant's reply.
TurnReply(k) ==
  /\ turnActive[k] # 0
  /\ msgs' = [msgs EXCEPT ![turnActive[k]].pc = "replied"]
  /\ turnActive' = [turnActive EXCEPT ![k] = 0]
  /\ UNCHANGED <<chAllowed, turnQueue, started>>
  /\ ChOthers

ChannelsNext ==
  \/ \E num \in Numbers, text \in {"", "hi"} :
       TelegramWebhook([num |-> num, prefixed |-> FALSE], text)
  \/ \E i \in 1..MaxMsgs, raised \in BOOLEAN : TelegramStatus(i, raised)
  \/ \E sender \in Senders, body \in {"", "hi"} : WhatsAppWebhook(sender, body)
  \/ \E num \in Numbers, speech_result \in {"", "hi"} :
       VoiceGather([num |-> num, prefixed |-> FALSE], speech_result)
  \/ \E k \in TurnKeys : TurnBegin(k)
  \/ \E k \in TurnKeys : TurnReply(k)

\* C22: a message from an identity that is not on the adapter's allow-list
\* never reaches process_message and gets no assistant reply.
C22_UnauthorizedNeverProcessed ==
  \A i \in 1..Len(msgs) :
    msgs[i].pc \in {"queued", "active", "replied"} => OnAllowList(msgs[i])

\* The position of message i among the turns begun, 0 if its turn has not.
StartedAt(i) ==
  LET hits == { p \in 1..Len(started) : started[p] = i }
  IN IF hits = {} THEN 0 ELSE CHOOSE p \in hits : TRUE

\* C23: a user has at most one turn in progress on a channel, and the
\* messages that arrived behind a turn in progress get their turns in the
\* order they arrived.
C23_OneTurnFifoPerUserChannel ==
  /\ \A i, j \in 1..Len(msgs) :
       (i # j /\ msgs[i].pc = "active" /\ msgs[j].pc = "active")
         => <<msgs[i].channel, msgs[i].user>> # <<msgs[j].channel, msgs[j].user>>
  /\ \A i, j \in 1..Len(msgs) :
       (/\ i < j
        /\ msgs[i].channel = msgs[j].channel /\ msgs[i].user = msgs[j].user
        /\ msgs[i].behind /\ msgs[j].behind
        /\ StartedAt(j) # 0 /\ msgs[i].pc # "error")
         => (StartedAt(i) # 0 /\ StartedAt(i) < StartedAt(j))

(***************************************************************************)
(* The brain's JSONL backup and its replay at startup:                     *)
(* src/core/brain/digital_clone_brain.py, src/core/brain/vector_db.py      *)
(***************************************************************************)

BrTexts == {"a", "b"}

\* doc_id = f"identity_{aspect}" / f"contact_{name}": the same text, the same id.
stable_id(text) == IF text = "a" THEN 1 ELSE 2

\* str(uuid.uuid4()): a value never drawn before.
uuid4(n) == 10 + n

\* record.get("doc_id") of an entry written without one.
NoDocId == 0

\* The entries _append_to_backup writes: store_identity and remember_person
\* with a doc_id, learn_communication_style and remember_preference without.
BackupEntries ==
  [type : {"identity"}, text : BrTexts, doc_id : {NoDocId}]
    \cup { [type |-> t, text |-> x, doc_id |-> stable_id(x)] :
             t \in {"identity", "contacts"}, x \in BrTexts }
    \cup [type : {"preferences"}, text : BrTexts, doc_id : {NoDocId}]

\* VectorDatabase.store / _upsert: the record of the same id is deleted,
\* the new one added; without a doc_id the id is a new uuid.
vdb_store(table, text, doc_id, n) ==
  LET id == IF doc_id = NoDocId THEN uuid4(n) ELSE doc_id
  IN { r \in table : r.id # id } \cup {[id |-> id, text |-> text]}

\* The number of uuids a replay of the entries draws.
RECURSIVE UuidsOf(_)
UuidsOf(es) ==
  IF es = <<>> THEN 0
  ELSE (IF es[1].doc_id = NoDocId THEN 1 ELSE 0) + UuidsOf(Tail(es))

\* The loop of _auto_restore_from_backup over the lines of the file.
RECURSIVE Replay(_, _, _)
Replay(st, es, n) ==
  IF es = <<>> THEN st
  ELSE LET e == es[1]
       IN Replay([st EXCEPT ![e.type] = vdb_store(@, e.text, e.doc_id, n)],
                 Tail(es),
                 IF e.doc_id = NoDocId THEN n + 1 ELSE n)

EmptyStores == [s \in Collective |-> {}]

NoBoot == [done |-> FALSE, exists |-> FALSE, empty |-> {}, replayed |-> FALSE]

BrInit ==
  /\ brStores = EmptyStores
  /\ backupFile = <<>>
  /\ brUuid = 0
  /\ boots = 0
  /\ lastBoot = NoBoot

BrOthers == UNCHANGED <<coreVars, dlqVars, wpVars, trVars, rmVars, atVars, chVars, thVars, rgVars, tgVars, mcVars, dgVars, grVars, stVars, wiVars>>

\* learn_communication_style / store_identity / remember_preference /
\* remember_person: the record is stored and appended to the backup.
BrRemember(e) ==
  /\ Len(backupFile) < MaxBackup
  /\ brStores' = [brStores EXCEPT ![e.type] = vdb_store(@, e.text, e.doc_id, brUuid)]
  /\ brUuid' = brUuid + (IF e.doc_id = NoDocId THEN 1 ELSE 0)
  /\ backupFile' = Append(backupFile, e)
  /\ UNCHANGED <<boots, lastBoot>>
  /\ BrOthers

\* The vector stores of W are lost between two runs of the process.
BrWipe(W) ==
  /\ W # {}
  /\ \E s \in W : brStores[s] # {}
  /\ brStores' = [s \in Collective |-> IF s \in W THEN {} ELSE brStores[s]]
  /\ UNCHANGED <<backupFile, brUuid, boots, lastBoot>>
  /\ BrOthers

\* DigitalCloneBrain.__init__ -> _auto_restore_from_backup.  When the
\* constructor runs inside a running event loop, run_until_complete raises
\* for every record and the record is skipped.
BrRestart(loop_running) ==
  LET exists == backupFile # <<>>
      skip == brStores["identity"] # {} /\ brStores["preferences"] # {}
      replays == exists /\ ~skip
  IN
  /\ boots < MaxBoots
  /\ boots' = boots + 1
  /\ lastBoot' = [done |-> TRUE, exists |-> exists,
                  empty |-> { s \in Collective : brStores[s] = {} },
                  replayed |-> replays]
  /\ IF replays /\ ~loop_running
     THEN /\ brStores' = Replay(brStores, backupFile, brUuid)
          /\ brUuid' = brUuid + UuidsOf(backupFile)
     ELSE UNCHANGED <<brStores, brUuid>>
  /\ UNCHANGED backupFile
  /\ BrOthers

BackupNext ==
  \/ \E e \in BackupEntries : BrRemember(e)
  \/ \E W \in SUBSET Collective : BrWipe(W)
  \/ \E loop_running \in BOOLEAN : BrRestart(loop_running)

\* C24: at a startup that finds the backup file, the backup is replayed
\* exactly when one of the identity, preferences and contacts stores is empty.
C24_ReplayedWhenAnyStoreEmpty ==
  (lastBoot.done /\ lastBoot.exists) => (lastBoot.replayed <=> lastBoot.empty # {})

\* The texts of a store, each with the number of records that hold it.
TextCounts(table) == [x \in BrTexts |-> Cardinality({ r \in table : r.text = x })]

\* C25: after a startup that replayed the backup, whatever the stores held
\* before, each store holds the records of one replay into empty stores.
C25_ReplayIdempotent ==
  (lastBoot.done /\ lastBoot.replayed) =>
    \A s \in Collective :
      TextCounts(brStores[s]) = TextCounts(Replay(EmptyStores, backupFile, 0)[s])

\* C26: a conversation turn stored with a channel outside the fixed set is
\* in the "general" store, and a retrieval for such a channel reads it.
C26_UnknownChannelUsesGeneral ==
  /\ \A c \in ContextNames : \A r \in contexts[c] :
       r.channel \notin KnownChannels => c = "general"
  /\ (lastQuery.resolved # NoName /\ lastQuery.resolved \notin KnownChannels)
       => <<"contexts", "general">> \in lastQuery.stores

(***************************************************************************)
(* Context thalamus: src/core/context_thalamus.py                          *)
(***************************************************************************)

MAX_HISTORY_TURNS == 20

Sessions == {"s1", "s2"}

\* history[a:b] of Python, on a list indexed from 1.
Slice(list, a, b) == [i \in 1..(b - a) |-> list[a + i]]

\* The list manage_history leaves for the session: the turn is appended and
\* a list of more than 40 messages becomes a summary message followed by
\* its last 40.
managed(history) ==
  LET appended == history \o <<"user", "assistant">>
      max_messages == MAX_HISTORY_TURNS * 2
      recent_turns == Slice(appended, Len(appended) - max_messages, Len(appended))
  IN IF Len(appended) > max_messages
     THEN <<"summary">> \o recent_turns
     ELSE appended

ThInit ==
  /\ histories = [s \in Sessions |-> <<>>]
  /\ lastHistory = <<>>

ThOthers == UNCHANGED <<coreVars, dlqVars, wpVars, trVars, rmVars, atVars, chVars, brVars, rgVars, tgVars, mcVars, dgVars, grVars, stVars, wiVars>>

manage_history(session_id) ==
  /\ histories' = [histories EXCEPT ![session_id] = managed(@)]
  /\ lastHistory' = managed(histories[session_id])
  /\ ThOthers

clear_history(session_id) ==
  /\ histories[session_id] # <<>>
  /\ histories' = [histories EXCEPT ![session_id] = <<>>]
  /\ UNCHANGED lastHistory
  /\ ThOthers

ThalamusNext ==
  \/ \E s \in Sessions : manage_history(s)
  \/ \E s \in Sessions : clear_history(s)

\* C27: the history stored for a session and the history manage_history
\* returns never hold more than 40 messages, the summary message included.
C27_HistoryAtMost40 ==
  /\ \A s \in Sessions : Len(histories[s]) <= 2 * MAX_HISTORY_TURNS
  /\ Len(lastHistory) <= 2 * MAX_HISTORY_TURNS

(***************************************************************************)
(* Tool registry: src/core/tools/registry.py                               *)
(***************************************************************************)

\* BashTool, FileTool and WebTool, registered by __init__.
DefaultTools == {"bash", "file_operations", "web_fetch"}

\* The names of the other tools of src/core/tools, registered after construction.
LaterTools == {"browser", "calendar", "clock", "email", "linkedin", "polymarket",
               "reminder", "send_whatsapp_message"}

\* Names execute_tool is called with.
ToolNames == DefaultTools \cup {"clock", "nope"}

\* What tool.execute does: it returns an envelope, raises an exception
\* derived from Exception, or raises one derived from BaseException only
\* (asyncio.CancelledError, KeyboardInterrupt, SystemExit).
Behaviours == {"returns_ok", "returns_failure", "raises_Exception", "raises_BaseException"}

\* ToolResult(success, error)
ToolResult(success, error) == [raised |-> FALSE, success |-> success, error |-> error]

\* The exception leaves execute_tool.
Raised == [raised |-> TRUE, success |-> FALSE, error |-> "propagated"]

RgInit ==
  /\ tools = DefaultTools
  /\ envelopes = <<>>

RgOthers == UNCHANGED <<coreVars, dlqVars, wpVars, trVars, rmVars, atVars, chVars, brVars, thVars, tgVars, mcVars, dgVars, grVars, stVars, wiVars>>

register(name) ==
  /\ tools' = tools \cup {name}
  /\ UNCHANGED envelopes
  /\ UNCHANGED <<sm_state, cancel_event, task_description, cancelAsked, lastSm>>
  /\ RgOthers

\* execute_tool without its try / except: what the tool raises leaves it.
execute_tool_uncaught(tool_name, behaviour) ==
  LET outcome ==
        IF tool_name \notin tools THEN ToolResult(FALSE, "Tool not found")
        ELSE CASE behaviour = "returns_ok" -> ToolResult(TRUE, "")
               [] behaviour = "returns_failure" -> ToolResult(FALSE, "failed")
               [] OTHER -> Raised
  IN
  /\ Len(envelopes) < MaxCalls
  /\ UNCHANGED tools
  /\ envelopes' = Append(envelopes, [tool |-> tool_name, behaviour |-> behaviour,
                                     known |-> tool_name \in tools,
                                     before |-> tools, kept |-> tools', out |-> outcome])
  /\ UNCHANGED <<sm_state, cancel_event, task_description, cancelAsked, lastSm>>
  /\ RgOthers

\* execute_tool(tool_name, **params), with what the tool's execute does.
execute_tool(tool_name, behaviour) ==
  LET outcome ==
        IF tool_name \notin tools THEN ToolResult(FALSE, "Tool not found")
        ELSE CASE behaviour = "returns_ok" -> ToolResult(TRUE, "")
               [] behaviour = "returns_failure" -> ToolResult(FALSE, "failed")
               [] behaviour = "raises_Exception" -> ToolResult(FALSE, "Tool execution error")
               [] OTHER -> Raised
  IN
  /\ Len(envelopes) < MaxCalls
  /\ UNCHANGED tools
  /\ envelopes' = Append(envelopes, [tool |-> tool_name, behaviour |-> behaviour,
                                     known |-> tool_name \in tools,
                                     before |-> tools, kept |-> tools', out |-> outcome])
  /\ UNCHANGED <<sm_state, cancel_event, task_description, cancelAsked, lastSm>>
  /\ RgOthers

RegistryNext ==
  \/ \E name \in {"clock"} : register(name)
  \/ \E tool_name \in ToolNames, behaviour \in Behaviours : execute_tool(tool_name, behaviour)

ToolsNext == \E name \in LaterTools : register(name)

\* A tool with an operation the risk table classes as irreversible.
has_irreversible(tool_name) ==
  /\ tool_name \in DOMAIN TOOL_RISK_MAP
  /\ \E op \in DOMAIN TOOL_RISK_MAP[tool_name] : TOOL_RISK_MAP[tool_name][op] = "irreversible"

\* C33: every registered tool that has an irreversible operation in the risk
\* table is reported by is_side_effect_tool.
C33_IrreversibleToolsAreSideEffectTools ==
  \A name \in tools : has_irreversible(name) => is_side_effect_tool(name)

\* C28: execute_tool never raises: for an unknown tool and for a tool whose
\* execute raises, it returns an envelope with success = false and an error
\* message, and the registered tools are those registered before the call.
C28_InvokerNeverRaises ==
  \A i \in 1..Len(envelopes) :
    LET e == envelopes[i] IN
    /\ ~e.out.raised
    /\ (~e.known \/ e.behaviour \in {"raises_Exception", "raises_BaseException"})
         => (~e.out.success /\ e.out.error # "")
    /\ e.kept = e.before

\* C28, amended: for an unknown tool and for a tool whose execute raises an
\* exception derived from Exception, execute_tool returns an envelope with
\* success = false and an error message; an exception derived from
\* BaseException only leaves execute_tool; the registered tools are those
\* registered before the call.
C28_ExceptionsBecomeEnvelopes ==
  \A i \in 1..Len(envelopes) :
    LET e == envelopes[i] IN
    /\ e.out.raised <=> (e.known /\ e.behaviour = "raises_BaseException")
    /\ (~e.known \/ e.behaviour = "raises_Exception")
         => (~e.out.raised /\ ~e.out.success /\ e.out.error # "")
    /\ e.kept = e.before

\* An unknown tool was called, and a registered tool whose execute raised.
C28_Witness ==
  /\ \E i \in 1..Len(envelopes) : ~envelopes[i].known /\ ~envelopes[i].out.success
  /\ \E i \in 1..Len(envelopes) :
       /\ envelopes[i].known /\ envelopes[i].behaviour = "raises_Exception"
       /\ ~envelopes[i].out.raised /\ ~envelopes[i].out.success

(***************************************************************************)
(* Agent state machine: src/core/nervous_system/state_machine.py           *)
(***************************************************************************)

AgentState ==
  {"idle", "parsing_intent", "thinking", "executing", "reflecting", "responding",
   "awaiting_approval"}

NoSm == [op |-> "none", value |-> FALSE, asked |-> "none"]

SmInit ==
  /\ sm_state = "idle"
  /\ cancel_event = FALSE
  /\ task_description = ""
  /\ cancelAsked = "none"
  /\ lastSm = NoSm

SmOthers ==
  /\ UNCHANGED <<tools, envelopes>>
  /\ RgOthers

transition(new_state, description) ==
  /\ sm_state' = new_state
  /\ task_description' = IF description # "" THEN description ELSE task_description
  /\ lastSm' = [op |-> "transition", value |-> FALSE, asked |-> cancelAsked]
  /\ UNCHANGED <<cancel_event, cancelAsked>>
  /\ SmOthers

\* The event is set in every state.
request_cancel_always ==
  /\ cancel_event' = TRUE
  /\ cancelAsked' = IF sm_state \notin {"idle", "responding"} THEN "latched"
                    ELSE IF cancelAsked = "none" THEN "ignored" ELSE cancelAsked
  /\ lastSm' = [op |-> "request_cancel", value |-> FALSE, asked |-> cancelAsked']
  /\ UNCHANGED <<sm_state, task_description>>
  /\ SmOthers

request_cancel ==
  /\ cancel_event' = IF sm_state \notin {"idle", "responding"} THEN TRUE ELSE cancel_event
  /\ cancelAsked' = IF sm_state \notin {"idle", "responding"} THEN "latched"
                    ELSE IF cancelAsked = "none" THEN "ignored" ELSE cancelAsked
  /\ lastSm' = [op |-> "request_cancel", value |-> FALSE, asked |-> cancelAsked']
  /\ UNCHANGED <<sm_state, task_description>>
  /\ SmOthers

is_cancelled ==
  /\ lastSm' = [op |-> "is_cancelled", value |-> cancel_event, asked |-> cancelAsked]
  /\ UNCHANGED <<sm_state, cancel_event, task_description, cancelAsked>>
  /\ SmOthers

reset ==
  /\ sm_state' = "idle"
  /\ cancel_event' = FALSE
  /\ task_description' = ""
  /\ cancelAsked' = "none"
  /\ lastSm' = [op |-> "reset", value |-> FALSE, asked |-> "none"]
  /\ SmOthers

StateMachineNext ==
  \/ \E new_state \in AgentState, description \in {"", "task", "other"} : transition(new_state, description)
  \/ request_cancel
  \/ is_cancelled
  \/ reset

\* C29: from a call of request_cancel until the next reset every poll of
\* is_cancelled returns true, whatever transitions happen in between; after
\* reset the state is idle and the poll returns false.
C29_CancelIsALatch ==
  /\ lastSm.op = "is_cancelled" => (lastSm.value <=> lastSm.asked # "none")
  /\ lastSm.op = "reset" => (sm_state = "idle" /\ ~cancel_event)

\* C29, amended: from a call of request_cancel made in a state other than
\* idle and responding until the next reset, every poll of is_cancelled
\* returns true, whatever transitions happen in between; a call made in idle
\* or responding sets nothing; after reset the state is idle and the poll
\* returns false.
C29_CancelLatchedOutsideIdle ==
  /\ lastSm.op = "is_cancelled" => (lastSm.value <=> lastSm.asked = "latched")
  /\ cancel_event <=> cancelAsked = "latched"
  /\ lastSm.op = "reset" => (sm_state = "idle" /\ ~cancel_event)

\* A poll returned true in the idle state: the request was made while
\* executing and the state has changed since.
C29_Witness ==
  /\ lastSm.op = "is_cancelled" /\ lastSm.value
  /\ sm_state = "idle"

(***************************************************************************)
(* The runner's final report over Telegram:                                *)
(* src/core/task_runner.py, _notify_user and _send_chunked_telegram.       *)
(* Texts are modelled by their lengths and the slices of the content by    *)
(* their offsets.                                                          *)
(***************************************************************************)

CHUNK == 3800

\* len(f"✅ Done: {self._safe(task.goal, 80)}\n\n") for goals of different lengths.
HeaderLens == {11, 50, 91}

\* len(full_content)
ContentLens ==
  {0, 1, 3000, 3709, 3710, 3750, 3789, 3790, 3800, 3801, 7000, 7509, 7510, 7600, 7601,
   11300, 11400, 11500}

\* The number of decimal digits of n.
Digits(n) == IF n < 10 THEN 1 ELSE IF n < 100 THEN 2 ELSE 3

\* len(f"*(continued {part})*\n\n")
label_len(part) == 16 + Digits(part)

\* min(a, b): content[a:b] stops at the end of content.
Min(a, b) == IF a < b THEN a ELSE b

TgInit ==
  /\ tgPc = "idle"
  /\ tgHeader = 0
  /\ tgContent = 0
  /\ tgRemaining = 0
  /\ tgPart = 0
  /\ tgChunks = <<>>

TgOthers == UNCHANGED <<coreVars, dlqVars, wpVars, trVars, rmVars, atVars, chVars, brVars, thVars, rgVars, mcVars, dgVars, grVars, stVars, wiVars>>

\* _send_chunked_telegram(header, content) up to its loop: the first chunk
\* is the header and content[: CHUNK - len(header)].
SendFirstChunk(header, content) ==
  /\ tgPc = "idle"
  /\ tgHeader' = header
  /\ tgContent' = content
  /\ tgChunks' = <<[kind |-> "header", part |-> 1, prefix |-> header,
                    from |-> 0, to |-> Min(CHUNK - header, content)]>>
  /\ tgRemaining' = Min(CHUNK - header, content)
  /\ tgPart' = 2
  /\ tgPc' = "loop"
  /\ TgOthers

\* One pass of 'while remaining': the label and remaining[:CHUNK].
SendContinuedChunk ==
  /\ tgPc = "loop"
  /\ tgRemaining < tgContent
  /\ tgChunks' = Append(tgChunks, [kind |-> "continued", part |-> tgPart,
                                   prefix |-> label_len(tgPart),
                                   from |-> tgRemaining,
                                   to |-> Min(tgRemaining + CHUNK, tgContent)])
  /\ tgRemaining' = Min(tgRemaining + CHUNK, tgContent)
  /\ tgPart' = tgPart + 1
  /\ UNCHANGED <<tgPc, tgHeader, tgContent>>
  /\ TgOthers

\* remaining is empty: the report is sent.
ReportSent ==
  /\ tgPc = "loop"
  /\ tgRemaining >= tgContent
  /\ tgPc' = "idle"
  /\ UNCHANGED <<tgHeader, tgContent, tgRemaining, tgPart, tgChunks>>
  /\ TgOthers

ReportNext ==
  \/ \E header \in HeaderLens, content \in ContentLens : SendFirstChunk(header, content)
  \/ SendContinuedChunk
  \/ ReportSent

\* C31: every message of a report handed to the notifier is at most 3800
\* characters with its header or label; the header is on the first only, the
\* others are labelled (continued 2), (continued 3), ... in order; and the
\* bodies one after the other are the content of the report.
C31_ChunksWithin3800 ==
  /\ \A i \in 1..Len(tgChunks) :
       /\ tgChunks[i].prefix + (tgChunks[i].to - tgChunks[i].from) <= CHUNK
       /\ tgChunks[i].kind = (IF i = 1 THEN "header" ELSE "continued")
       /\ tgChunks[i].part = i
       /\ tgChunks[i].from = (IF i = 1 THEN 0 ELSE tgChunks[i - 1].to)
  /\ (tgPc = "idle" /\ tgChunks # <<>>) => tgChunks[Len(tgChunks)].to = tgContent

(***************************************************************************)
(* Memory consolidator: src/core/memory_consolidator.py.  The records of a *)
(* store are counted by what the pruning tells apart: conversation turns   *)
(* older than the retention period, younger ones, and other records.       *)
(***************************************************************************)

\* n_results of the search for conversation turns.
MAX_TURNS_PER_CONTEXT == 500

\* brain._contexts and brain.memory
McStoreNames == {"telegram", "email", "legacy"}

McInit(old, recent) ==
  /\ mcStores = [s \in McStoreNames |->
                   IF s = "telegram" THEN [old |-> old, recent |-> recent, other |-> 0]
                   ELSE [old |-> 0, recent |-> 0, other |-> 0]]
  /\ mcCollective = [s \in Collective |-> 1]
  /\ mcPrev = FALSE
  /\ lastCycle = [done |-> FALSE, pruned |-> 0, again |-> FALSE]
  /\ mcSteps = [added |-> 0, aged |-> 0]

McOthers == UNCHANGED <<coreVars, dlqVars, wpVars, trVars, rmVars, atVars, chVars, brVars, thVars, rgVars, tgVars, dgVars, grVars, stVars, wiVars>>

\* db.search(query, n_results, filter type = conversation): the number of
\* turns returned.
search_size(st) ==
  IF st.old + st.recent < MAX_TURNS_PER_CONTEXT THEN st.old + st.recent
  ELSE MAX_TURNS_PER_CONTEXT

\* The numbers of old turns that can be among the turns the search returns:
\* the nearest to the query, whatever their age.
OldInResults(st) ==
  { k \in 0..st.old : k <= search_size(st) /\ search_size(st) - k <= st.recent }

\* A search that returns every turn of the store.
OldInResults_all(st) == {st.old}

\* _prune_old_conversations: the old turns among the results are deleted.
prune_old_conversations(st, k) == [st EXCEPT !.old = @ - k]

\* A turn is stored in a store.
McStoreTurn(s) ==
  /\ mcSteps.added < MaxAdded
  /\ mcStores' = [mcStores EXCEPT ![s].recent = @ + 1]
  /\ mcSteps' = [mcSteps EXCEPT !.added = @ + 1]
  /\ mcPrev' = FALSE
  /\ UNCHANGED <<mcCollective, lastCycle>>
  /\ McOthers

\* A record that is no conversation turn is stored in a store.
McStoreOther(s) ==
  /\ mcStores[s].other < 1
  /\ mcStores' = [mcStores EXCEPT ![s].other = @ + 1]
  /\ mcPrev' = FALSE
  /\ UNCHANGED <<mcCollective, lastCycle, mcSteps>>
  /\ McOthers

\* Time passes: a turn of the store becomes older than 30 days.
McAge(s) ==
  /\ mcStores[s].recent > 0
  /\ mcStores[s].old < MaxOld
  /\ mcSteps.aged < MaxOld
  /\ mcStores' = [mcStores EXCEPT ![s].recent = @ - 1, ![s].old = @ + 1]
  /\ mcSteps' = [mcSteps EXCEPT !.aged = @ + 1]
  /\ mcPrev' = FALSE
  /\ UNCHANGED <<mcCollective, lastCycle>>
  /\ McOthers

\* _run_consolidation: every context store and the legacy store is pruned.
RunConsolidation ==
  \E found \in [McStoreNames -> 0..MaxOld] :
    /\ \A s \in McStoreNames : found[s] \in OldInResults(mcStores[s])
    /\ mcStores' = [s \in McStoreNames |-> prune_old_conversations(mcStores[s], found[s])]
    /\ lastCycle' = [done |-> TRUE,
                     pruned |-> found["telegram"] + found["email"] + found["legacy"],
                     again |-> mcPrev]
    /\ mcPrev' = TRUE
    /\ UNCHANGED <<mcCollective, mcSteps>>
    /\ McOthers

ConsolidatorNext ==
  \/ \E s \in McStoreNames : McStoreTurn(s)
  \/ \E s \in McStoreNames : McStoreOther(s)
  \/ \E s \in McStoreNames : McAge(s)
  \/ RunConsolidation

digest_hour == 9

DAY == 24 * 60

date_of(t) == t \div DAY
hour_of(t) == (t % DAY) \div 60
minute_of(t) == t % 60

\* _last_digest_date = None
NoDate == -1

DgInit(m, start) ==
  /\ dgNow = start
  /\ digest_minute = m
  /\ last_digest_date = NoDate
  /\ dgSent = [d \in 0..MaxDays |-> [delivered |-> 0, raised |-> FALSE]]
  /\ dgLast = [kind |-> "none", at |-> start]

DgOthers == UNCHANGED <<coreVars, dlqVars, wpVars, trVars, rmVars, atVars, chVars, brVars, thVars, rgVars, tgVars, mcVars, grVars, stVars, wiVars>>

\* _check_and_send with the date marked before the notifier is called.
check_and_send_marks_first(raises, slept) ==
  LET today == date_of(dgNow)
      due == /\ last_digest_date # today
             /\ hour_of(dgNow) = digest_hour
             /\ minute_of(dgNow) >= digest_minute
  IN /\ dgNow + slept <= MaxDays * DAY
     /\ last_digest_date' = IF due THEN today ELSE last_digest_date
     /\ dgSent' = IF due
                  THEN [dgSent EXCEPT ![today] =
                          [delivered |-> @.delivered + (IF raises THEN 0 ELSE 1),
                           raised |-> @.raised \/ raises]]
                  ELSE dgSent
     /\ dgLast' = [kind |-> IF ~due THEN "skipped" ELSE IF raises THEN "raised" ELSE "delivered",
                   at |-> dgNow]
     /\ dgNow' = dgNow + slept
     /\ UNCHANGED digest_minute
     /\ DgOthers

\* One round of start(): _check_and_send, where telegram.notify returns or
\* raises, then the sleep of 60 s; the next poll is one minute or more later.
check_and_send(raises, slept) ==
  LET today == date_of(dgNow)
      due == /\ last_digest_date # today
             /\ hour_of(dgNow) = digest_hour
             /\ minute_of(dgNow) >= digest_minute
  IN /\ dgNow + slept <= MaxDays * DAY
     /\ last_digest_date' = IF due /\ ~raises THEN today ELSE last_digest_date
     /\ dgSent' = IF due
                  THEN [dgSent EXCEPT ![today] =
                          [delivered |-> @.delivered + (IF raises THEN 0 ELSE 1),
                           raised |-> @.raised \/ raises]]
                  ELSE dgSent
     /\ dgLast' = [kind |-> IF ~due THEN "skipped" ELSE IF raises THEN "raised" ELSE "delivered",
                   at |-> dgNow]
     /\ dgNow' = dgNow + slept
     /\ UNCHANGED digest_minute
     /\ DgOthers

DigestNext == \E raises \in BOOLEAN, slept \in {1, 61} : check_and_send(raises, slept)

Runs == {"A", "B"}

GrInit ==
  gateRuns = [r \in Runs |-> [active |-> FALSE, allowed |-> 0, refusedEarly |-> FALSE]]

GrFrame == UNCHANGED <<dlqVars, wpVars, trVars, rmVars, atVars, chVars, brVars, thVars, rgVars, tgVars, mcVars, dgVars, stVars, wiVars>>

\* A run starts: reset_run_counts().
RunStarts(r) ==
  /\ ~gateRuns[r].active
  /\ counts' = reset_run_counts(counts)
  /\ gateRuns' = [gateRuns EXCEPT ![r] = [active |-> TRUE, allowed |-> 0, refusedEarly |-> FALSE]]
  /\ UNCHANGED <<require_approval, lastCheck, runKind, runCalls, allowedCount, blocked, blockedPrev>>
  /\ UNCHANGED <<obVars, svVars, memVars, wmVars>> /\ GrFrame

\* A run asks the gate before a call of web_search.
RunChecks(r) ==
  LET answer == check(counts, require_approval, "web_search", NoOp) IN
  /\ gateRuns[r].active
  /\ gateRuns[r].allowed <= max_calls_per_run
  /\ counts' = answer.counts
  /\ gateRuns' = [gateRuns EXCEPT
                    ![r].allowed = IF answer.allowed THEN @ + 1 ELSE @,
                    ![r].refusedEarly =
                       @ \/ (answer.reason = "exceeded" /\ gateRuns[r].allowed < max_calls_per_run)]
  /\ UNCHANGED <<require_approval, lastCheck, runKind, runCalls, allowedCount, blocked, blockedPrev>>
  /\ UNCHANGED <<obVars, svVars, memVars, wmVars>> /\ GrFrame

\* A run ends.
RunEnds(r) ==
  /\ gateRuns[r].active
  /\ gateRuns' = [gateRuns EXCEPT ![r].active = FALSE]
  /\ UNCHANGED pgVars
  /\ UNCHANGED <<obVars, svVars, memVars, wmVars>> /\ GrFrame

GateRunsNext ==
  \/ \E r \in Runs : RunStarts(r)
  \/ \E r \in Runs : RunChecks(r)
  \/ \E r \in Runs : RunEnds(r)

\* C36: with two runs active over the shared gate, each run is allowed at
\* most 20 calls of a tool (the reset of one run does not erase what the
\* other has used), and a run is refused for the cap only after 20 allowed
\* calls of its own (the calls of one run do not block the other).
C36_EachRunLimitedTo20 ==
  \A r \in Runs :
    /\ gateRuns[r].allowed <= max_calls_per_run
    /\ ~gateRuns[r].refusedEarly

(***************************************************************************)
(* Turns running in parallel over the one AgentStateMachine: a turn moves  *)
(* the machine through its states, polls is_cancelled between steps, and   *)
(* calls reset when it finishes.                                           *)
(***************************************************************************)

StTurns == {"A", "B"}

StInit ==
  smTurns = [t \in StTurns |-> [running |-> FALSE, unseen |-> FALSE, missed |-> FALSE]]

StOthers ==
  /\ UNCHANGED <<tools, envelopes, cancelAsked, lastSm>>
  /\ UNCHANGED <<coreVars, dlqVars, wpVars, trVars, rmVars, atVars, chVars, brVars, thVars, tgVars, mcVars, dgVars, grVars, wiVars>>

\* A turn starts or goes on: transition(new_state).
TurnTransitions(t, new_state) ==
  /\ sm_state' = new_state
  /\ smTurns' = [smTurns EXCEPT ![t].running = TRUE]
  /\ UNCHANGED <<cancel_event, task_description>>
  /\ StOthers

\* The user cancels while turn t is executing: request_cancel().
CancelDuring(t) ==
  /\ smTurns[t].running
  /\ sm_state = "executing"
  /\ cancel_event' = TRUE
  /\ smTurns' = [smTurns EXCEPT ![t].unseen = TRUE]
  /\ UNCHANGED <<sm_state, task_description>>
  /\ StOthers

\* A running turn polls is_cancelled().
TurnPolls(t) ==
  /\ smTurns[t].running
  /\ smTurns' = [smTurns EXCEPT ![t].unseen = FALSE,
                                ![t].missed = @ \/ (smTurns[t].unseen /\ ~cancel_event)]
  /\ UNCHANGED <<sm_state, cancel_event, task_description>>
  /\ StOthers

\* A turn finishes: reset().
TurnFinishes(t) ==
  /\ smTurns[t].running
  /\ sm_state' = "idle"
  /\ cancel_event' = FALSE
  /\ task_description' = ""
  /\ smTurns' = [smTurns EXCEPT ![t].running = FALSE, ![t].unseen = FALSE]
  /\ StOthers

ParallelTurnsNext ==
  \/ \E t \in StTurns, new_state \in {"thinking", "executing", "responding"} :
       TurnTransitions(t, new_state)
  \/ \E t \in StTurns : CancelDuring(t)
  \/ \E t \in StTurns : TurnPolls(t)
  \/ \E t \in StTurns : TurnFinishes(t)

\* C37: with turns in parallel over the shared state machine, a cancel
\* requested while a turn is executing is seen by that turn's next
\* is_cancelled() poll, whatever reset() another turn calls in between.
C37_CancelSurvivesOtherReset ==
  \A t \in StTurns : ~smTurns[t].missed

(***************************************************************************)
(* Working memory instances of one process, src/core/brain/working_memory  *)
(* .py: _load builds the state from the module-level _DEFAULT, whose list  *)
(* values are objects that a shallow copy shares.                          *)
(***************************************************************************)

\* The paths of two instances.
WiPaths == {"p1", "p2"}

WiItems == {"a", "b"}

\* No instance: the state refers to no list.
NoInst == [alive |-> FALSE, shares |-> FALSE, own |-> <<>>, fromDefault |-> FALSE, atLoad |-> <<>>]

WiInit ==
  /\ default_unfinished = <<>>
  /\ wiFile = [p \in WiPaths |-> [kind |-> "missing", unfinished |-> <<>>]]
  /\ wiInst = [p \in WiPaths |-> NoInst]

WiOthers == UNCHANGED <<coreVars, dlqVars, wpVars, trVars, rmVars, atVars, chVars, brVars, thVars, rgVars, tgVars, mcVars, dgVars, grVars, stVars>>

\* state["unfinished"] of the instance at p.
unfinished_of(p) == IF wiInst[p].shares THEN default_unfinished ELSE wiInst[p].own

\* WorkingMemory(path): _load.  A valid file with the field gives the list
\* parsed from it; a missing or corrupt file gives dict(_DEFAULT), a file
\* without the field gives {**_DEFAULT, **data}: both hold the list object
\* of _DEFAULT.
WorkingMemory(p) ==
  LET has_field == wiFile[p].kind = "valid" IN
  /\ ~wiInst[p].alive
  /\ wiInst' = [wiInst EXCEPT ![p] =
                  [alive |-> TRUE, shares |-> ~has_field,
                   own |-> IF has_field THEN wiFile[p].unfinished ELSE <<>>,
                   fromDefault |-> ~has_field,
                   atLoad |-> IF has_field THEN wiFile[p].unfinished ELSE default_unfinished]]
  /\ UNCHANGED <<default_unfinished, wiFile>>
  /\ WiOthers

\* list.append(item), then pop(0) over 5 items.
appended(list, item) ==
  LET longer == Append(list, item)
  IN IF Len(longer) > 5 THEN Tail(longer) ELSE longer

\* add_unfinished(item): the list the state refers to is changed in place,
\* then _save writes the state.
add_unfinished(p, item) ==
  LET list == unfinished_of(p) IN
  /\ wiInst[p].alive
  /\ \A i \in 1..Len(list) : list[i] # item
  /\ default_unfinished' = IF wiInst[p].shares THEN appended(list, item) ELSE default_unfinished
  /\ wiInst' = IF wiInst[p].shares THEN wiInst
               ELSE [wiInst EXCEPT ![p].own = appended(list, item)]
  /\ wiFile' = [wiFile EXCEPT ![p] = [kind |-> "valid", unfinished |-> appended(list, item)]]
  /\ WiOthers

\* The instance is dropped; the process goes on.
WiDropped(p) ==
  /\ wiInst[p].alive
  /\ wiInst' = [wiInst EXCEPT ![p] = NoInst]
  /\ UNCHANGED <<default_unfinished, wiFile>>
  /\ WiOthers

\* The file is removed, damaged, or replaced by one without the field.
WiFileLost(p, kind) ==
  /\ ~wiInst[p].alive
  /\ wiFile[p].kind = "valid"
  /\ wiFile' = [wiFile EXCEPT ![p] = [kind |-> kind, unfinished |-> <<>>]]
  /\ UNCHANGED <<default_unfinished, wiInst>>
  /\ WiOthers

InstancesNext ==
  \/ \E p \in WiPaths : WorkingMemory(p)
  \/ \E p \in WiPaths, item \in WiItems : add_unfinished(p, item)
  \/ \E p \in WiPaths : WiDropped(p)
  \/ \E p \in WiPaths, kind \in {"missing", "corrupt", "no_field"} : WiFileLost(p, kind)

\* C38: an instance whose file is missing, corrupt or lacks the field starts
\* from an empty unfinished list, and no change made through an instance
\* changes the defaults.
C38_FreshDefaultsPerInstance ==
  /\ default_unfinished = <<>>
  /\ \A p \in WiPaths : wiInst[p].fromDefault => wiInst[p].atLoad = <<>>

----
(***************************************************************************)
(* All subsystems start together; each specification moves one of them.    *)
(***************************************************************************)

\* The gate is built with its default, require_approval = False.
\* The subsystems after the gate and the turn.
\* The subsystems of the third part.
FourthInit == DgInit(0, 0) /\ GrInit /\ StInit /\ WiInit

ThirdInit == AtInit(0) /\ ChInit({"owner"}) /\ BrInit /\ ThInit /\ RgInit /\ SmInit /\ TgInit /\ McInit(0, 0) /\ FourthInit

LaterInit == DlqInit(0) /\ WpInit /\ TrInit /\ RmInit /\ ThirdInit

Init == ObInit /\ SvInit /\ MemInit /\ PgInit(FALSE) /\ WmInit /\ LaterInit

\* The gate is built in either mode.
\* The dead letter queue finds the file of earlier processes.
InitDlq == ObInit /\ SvInit /\ MemInit /\ PgInit(FALSE) /\ WmInit /\ DlqInit(PriorSize) /\ WpInit /\ TrInit /\ RmInit /\ ThirdInit

\* The attention engine finds a full log written within the hour.
InitAttention ==
  /\ ObInit /\ SvInit /\ MemInit /\ PgInit(FALSE) /\ WmInit
  /\ DlqInit(0) /\ WpInit /\ TrInit /\ RmInit /\ AtInit(ATT_LOG_MAX) /\ ChInit({"owner"}) /\ BrInit /\ ThInit /\ RgInit /\ SmInit /\ TgInit /\ McInit(0, 0) /\ FourthInit

\* The adapters are configured with an allow-list or with none.
InitChannels ==
  \E nums \in {{}, {"owner"}} :
    /\ ObInit /\ SvInit /\ MemInit /\ PgInit(FALSE) /\ WmInit
    /\ DlqInit(0) /\ WpInit /\ TrInit /\ RmInit /\ AtInit(0) /\ ChInit(nums) /\ BrInit /\ ThInit /\ RgInit /\ SmInit /\ TgInit /\ McInit(0, 0) /\ FourthInit

\* The consolidator finds a channel store of more than 500 turns.
InitConsolidator ==
  /\ ObInit /\ SvInit /\ MemInit /\ PgInit(FALSE) /\ WmInit
  /\ DlqInit(0) /\ WpInit /\ TrInit /\ RmInit /\ AtInit(0) /\ ChInit({"owner"}) /\ BrInit
  /\ ThInit /\ RgInit /\ SmInit /\ TgInit /\ McInit(2, MAX_TURNS_PER_CONTEXT - 1) /\ FourthInit

\* The digest is configured for 09:00 or 09:30 and started before or in that hour.
InitDigest ==
  \E m \in {0, 30}, start \in {8 * 60 + 58, 9 * 60 + 15} :
    /\ ObInit /\ SvInit /\ MemInit /\ PgInit(FALSE) /\ WmInit
    /\ DlqInit(0) /\ WpInit /\ TrInit /\ RmInit /\ AtInit(0) /\ ChInit({"owner"}) /\ BrInit
    /\ ThInit /\ RgInit /\ SmInit /\ TgInit /\ McInit(0, 0) /\ DgInit(m, start) /\ GrInit /\ StInit /\ WiInit

InitGate == \E strict \in BOOLEAN : ObInit /\ SvInit /\ MemInit /\ PgInit(strict) /\ WmInit /\ LaterInit

SpecOutbox == Init /\ [][OutboxNext]_vars
SpecOutboxApi == Init /\ [][OutboxApiNext]_vars
SpecSave == Init /\ [][SaveNext]_vars
SpecMemory == Init /\ [][MemoryNext]_vars
SpecGate == InitGate /\ [][GateNext]_vars
SpecTurn == InitGate /\ [][TurnNext]_vars
SpecDlq == InitDlq /\ [][DlqNext]_vars
SpecPending == Init /\ [][PendingNext]_vars
SpecRunner == Init /\ [][RunnerNext]_vars
SpecReminder == Init /\ [][ReminderNext]_vars
SpecAttention == InitAttention /\ [][AttentionNext]_vars
SpecChannels == InitChannels /\ [][ChannelsNext]_vars
SpecBackup == Init /\ [][BackupNext]_vars
SpecThalamus == Init /\ [][ThalamusNext]_vars
SpecRegistry == Init /\ [][RegistryNext]_vars
SpecStateMachine == Init /\ [][StateMachineNext]_vars
SpecTools == Init /\ [][ToolsNext]_vars
SpecReport == Init /\ [][ReportNext]_vars
SpecConsolidator == InitConsolidator /\ [][ConsolidatorNext]_vars
SpecDigest == InitDigest /\ [][DigestNext]_vars
SpecGateRuns == Init /\ [][GateRunsNext]_vars
SpecParallelTurns == Init /\ [][ParallelTurnsNext]_vars
SpecInstances == Init /\ [][InstancesNext]_vars

====
